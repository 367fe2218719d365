--------------------------- MODULE MoodyQueueProofs ---------------------------
(***************************************************************************)
(* moodycamel's queue for every number of threads, producers, blocks and   *)
(* calls.  The counters: dequeue() claims an element by                     *)
(* dequeueOptimisticCount before it knows that there is one, and makes a    *)
(* claim too many good by dequeueOvercommit, which others may have loaded   *)
(* long before they claim.  The blocks: the slot a dequeuer finds through   *)
(* the block index is the one its element was stored in, and no block has   *)
(* two owners.                                                              *)
(***************************************************************************)
EXTENDS MoodyQueue, CommonLemmas, FiniteSetTheorems, TLAPS

-----------------------------------------------------------------------------
\* The places of dequeue() where a thread has loaded dequeueOvercommit, and those
\* where it has claimed an element.
Loaded  == {"count", "claim", "tail", "overcommit"}
Claimed == {"tail", "overcommit"}

\* What the steps need to know of the threads' locals.
Shape ==
    /\ DOMAIN pc = Threads /\ DOMAIN loc = Threads
    /\ \A t \in Threads : {"p", "over", "my"} \subseteq DOMAIN loc[t]

CountersOK ==
    /\ dequeueOptimisticCount \in [Producers -> Nat]
    /\ dequeueOvercommit \in [Producers -> Nat]
    /\ headIndex \in [Producers -> Nat]
    /\ tailIndex \in [Producers -> Nat]

CreatedOK == created \in Nat /\ 1 .. created \subseteq Producers

\* Nothing is claimed that is not taken, pending or made good.
BalancedAt(p) ==
    dequeueOptimisticCount[p] - dequeueOvercommit[p] = headIndex[p] + Cardinality(Pending(p))

Balanced == \A p \in Producers : BalancedAt(p)

\* The overcommit that a thread has loaded is behind, and so is its claim.
LocalsOK ==
    \A t \in Threads : loc[t].p \in Producers =>
        /\ pc[t] \in Loaded =>
              loc[t].over \in Nat /\ loc[t].over <= dequeueOvercommit[loc[t].p]
        /\ pc[t] \in Claimed =>
              loc[t].my \in Nat /\ loc[t].my < dequeueOptimisticCount[loc[t].p]

\* The pending claims below m.
Below(p, m) == {t \in Pending(p) : loc[t].my < m}

\* m is behind the highest claim that got its element.  There are elements for all
\* pending claims below m, and for one above m there will be as soon as the test
\* of CheckTail holds for it.
ClaimsFit(p, m) ==
    /\ headIndex[p] + Cardinality(Below(p, m)) <= tailIndex[p]
    /\ \A t \in Pending(p), k \in Nat : loc[t].my = k /\ k >= m =>
          headIndex[p] + Cardinality(Below(p, k + 1)) <= k + 1 - loc[t].over

FitsAt(p) == \E m \in 0 .. dequeueOptimisticCount[p] : ClaimsFit(p, m)

Fits == \A p \in Producers : FitsAt(p)

IInv == Shape /\ CountersOK /\ CreatedOK /\ Balanced /\ LocalsOK /\ Fits

-----------------------------------------------------------------------------
\* The pending claims can be counted.
LEMMA PendingFinite ==
    ASSUME NEW p
    PROVE  /\ IsFiniteSet(Pending(p)) /\ Cardinality(Pending(p)) \in Nat
           /\ \A m : IsFiniteSet(Below(p, m)) /\ Cardinality(Below(p, m)) \in Nat
<1>1. Pending(p) \subseteq Threads /\ \A m : Below(p, m) \subseteq Threads
  BY DEF Pending, Below
<1>2. \A S : S \subseteq Threads => IsFiniteSet(S)  BY ThreadsAssumption, FS_Subset
<1> QED  BY <1>1, <1>2, FS_CardinalityType

\* A counter of a producer goes up by one.
LEMMA CountUp ==
    ASSUME NEW f \in [Producers -> Nat], NEW p
    PROVE  [f EXCEPT ![p] = @ + 1] \in [Producers -> Nat]
<1>1. \A n \in Nat : [f EXCEPT ![p] = n] \in [Producers -> Nat]  BY Zenon
<1>2. CASE p \in Producers
  <2>1. f[p] + 1 \in Nat  BY <1>2
  <2> QED  BY <1>1, <2>1
<1>3. CASE p \notin Producers  BY <1>3
<1> QED  BY <1>2, <1>3

\* The queue starts without claims.
LEMMA InitIInv == QInit => IInv
<1> SUFFICES ASSUME QInit PROVE IInv  OBVIOUS
<1>1. Shape  BY DEF QInit, Shape, Blank
<1>2. CountersOK  BY DEF QInit, CountersOK
<1>3. CreatedOK  BY ProducersAssumption DEF QInit, CreatedOK, Producers
<1>4. \A p : Pending(p) = {} /\ \A m : Below(p, m) = {}
  BY DEF QInit, Pending, Below
<1>5. \A p : Cardinality(Pending(p)) = 0 /\ \A m : Cardinality(Below(p, m)) = 0
  BY <1>4, FS_EmptySet, Zenon
<1>z. \A p \in Producers : /\ dequeueOptimisticCount[p] = 0 /\ dequeueOvercommit[p] = 0
                           /\ headIndex[p] = 0 /\ tailIndex[p] = 0
  BY DEF QInit
<1>6. Balanced  BY <1>5, <1>z DEF Balanced, BalancedAt
<1>7. LocalsOK  BY DEF QInit, LocalsOK, Loaded, Claimed
<1>8. Fits
  <2> SUFFICES ASSUME NEW p \in Producers
               PROVE  \E m \in 0 .. dequeueOptimisticCount[p] : ClaimsFit(p, m)
    BY DEF Fits, FitsAt
  <2>1. 0 \in 0 .. dequeueOptimisticCount[p]  BY <1>z
  <2>2. ClaimsFit(p, 0)  BY <1>4, <1>5, <1>z DEF ClaimsFit
  <2> QED  BY <2>1, <2>2
<1> QED  BY <1>1, <1>2, <1>3, <1>6, <1>7, <1>8 DEF IInv

-----------------------------------------------------------------------------
\* A step that leaves the claims and their counters alone.
Quiet ==
    /\ UNCHANGED counters
    /\ tailIndex' \in [Producers -> Nat]
    /\ \A p \in Producers : tailIndex[p] <= tailIndex'[p]
    /\ \A u \in Threads : pc'[u] \in Claimed <=> pc[u] \in Claimed
    /\ \A u \in Threads : pc[u] \in Claimed =>
          loc'[u].p = loc[u].p /\ loc'[u].my = loc[u].my /\ loc'[u].over = loc[u].over
    /\ \A u \in Threads : pc'[u] \in Loaded \ Claimed =>
          \/ pc[u] \in Loaded \ Claimed /\ loc'[u].p = loc[u].p /\ loc'[u].over = loc[u].over
          \/ loc'[u].over = dequeueOvercommit[loc'[u].p]

\* Such a step keeps the invariant.
LEMMA QuietIInv ==
    ASSUME IInv, Shape', CreatedOK', Quiet
    PROVE  IInv'
<1>1. /\ headIndex' = headIndex /\ dequeueOptimisticCount' = dequeueOptimisticCount
      /\ dequeueOvercommit' = dequeueOvercommit
  BY DEF Quiet, counters
<1>2. CountersOK'  BY <1>1 DEF IInv, CountersOK, Quiet
<1>3. \A p : Pending(p)' = Pending(p)  BY DEF Quiet, Pending, Claimed
<1>4. \A p, m : Below(p, m)' = Below(p, m)
  BY <1>3 DEF Below, Pending, Quiet, Claimed
<1>5. Balanced'  BY <1>1, <1>3 DEF IInv, Balanced, BalancedAt
<1>6. LocalsOK'
  <2> SUFFICES ASSUME NEW t \in Threads, loc'[t].p \in Producers
               PROVE  /\ pc'[t] \in Loaded =>
                           loc'[t].over \in Nat /\ loc'[t].over <= dequeueOvercommit[loc'[t].p]
                      /\ pc'[t] \in Claimed =>
                           loc'[t].my \in Nat /\ loc'[t].my < dequeueOptimisticCount[loc'[t].p]
    BY <1>1 DEF LocalsOK
  <2>1. CASE pc'[t] \in Claimed  BY <2>1 DEF Quiet, IInv, LocalsOK, Loaded, Claimed
  <2>2. CASE pc'[t] \in Loaded \ Claimed
    <3>1. dequeueOvercommit[loc'[t].p] \in Nat  BY DEF IInv, CountersOK
    <3>2. CASE loc'[t].over = dequeueOvercommit[loc'[t].p]  BY <2>2, <3>1, <3>2
    <3>3. CASE pc[t] \in Loaded /\ loc'[t].p = loc[t].p /\ loc'[t].over = loc[t].over
      BY <2>2, <3>3 DEF IInv, LocalsOK
    <3> QED  BY <2>2, <3>2, <3>3 DEF Quiet
  <2>3. CASE pc'[t] \notin Loaded  BY <2>3 DEF Loaded, Claimed
  <2> QED  BY <2>1, <2>2, <2>3
<1>7. Fits'
  <2> SUFFICES ASSUME NEW p \in Producers
               PROVE  \E m \in 0 .. dequeueOptimisticCount[p] : ClaimsFit(p, m)'
    BY <1>1 DEF Fits, FitsAt
  <2>1. PICK m \in 0 .. dequeueOptimisticCount[p] : ClaimsFit(p, m)
    BY DEF IInv, Fits, FitsAt
  <2>2. headIndex[p] + Cardinality(Below(p, m)) <= tailIndex'[p]
    <3>1. /\ headIndex[p] + Cardinality(Below(p, m)) <= tailIndex[p]
          /\ tailIndex[p] <= tailIndex'[p]
          /\ headIndex[p] \in Nat /\ tailIndex[p] \in Nat /\ tailIndex'[p] \in Nat
      BY <2>1 DEF ClaimsFit, Quiet, IInv, CountersOK
    <3>2. Cardinality(Below(p, m)) \in Nat  BY PendingFinite
    <3> QED  BY <3>1, <3>2
  <2>3. \A t \in Pending(p) : loc'[t].my = loc[t].my /\ loc'[t].over = loc[t].over
    BY DEF Pending, Quiet, Claimed
  <2>4. ClaimsFit(p, m)'  BY <1>1, <1>3, <1>4, <2>1, <2>2, <2>3 DEF ClaimsFit
  <2> QED  BY <2>1, <2>4
<1> QED  BY <1>2, <1>5, <1>6, <1>7 DEF IInv

-----------------------------------------------------------------------------
\* A step of t leaves the other threads alone.
OnlyMoves(t) == \A u \in Threads \ {t} : pc'[u] = pc[u] /\ loc'[u] = loc[u]

\* The counters of q stay.
SameCounters(q) ==
    /\ headIndex'[q] = headIndex[q] /\ tailIndex'[q] = tailIndex[q]
    /\ dequeueOptimisticCount'[q] = dequeueOptimisticCount[q]
    /\ dequeueOvercommit'[q] = dequeueOvercommit[q]

\* A step of t at one producer does not concern another.
LEMMA OtherProducer ==
    ASSUME IInv, NEW t \in Threads, NEW q \in Producers, OnlyMoves(t), SameCounters(q),
           t \notin Pending(q), t \notin Pending(q)'
    PROVE  BalancedAt(q)' /\ FitsAt(q)'
<1>1. Pending(q)' = Pending(q) /\ \A u \in Pending(q) : loc'[u] = loc[u]
  BY DEF Pending, OnlyMoves
<1>2. \A m : Below(q, m)' = Below(q, m)  BY <1>1 DEF Below
<1>3. BalancedAt(q)'  BY <1>1 DEF IInv, Balanced, BalancedAt, SameCounters
<1>4. PICK m \in 0 .. dequeueOptimisticCount[q] : ClaimsFit(q, m)
  BY DEF IInv, Fits, FitsAt
<1>5. ClaimsFit(q, m)'  BY <1>1, <1>2, <1>4 DEF ClaimsFit, SameCounters
<1> QED  BY <1>3, <1>4, <1>5 DEF FitsAt, SameCounters

\* t claims at p.
LEMMA PendingMore ==
    ASSUME NEW t \in Threads, NEW p, OnlyMoves(t), t \notin Pending(p), t \in Pending(p)'
    PROVE  /\ Cardinality(Pending(p)') = Cardinality(Pending(p)) + 1
           /\ \A u \in Pending(p)' : u # t => u \in Pending(p) /\ loc'[u] = loc[u]
           /\ \A m : ~ (loc'[t].my < m) => Below(p, m)' = Below(p, m)
<1>1. Pending(p)' = Pending(p) \union {t} /\ \A u \in Pending(p) : loc'[u] = loc[u]
  BY DEF Pending, OnlyMoves
<1>2. Cardinality(Pending(p)') = Cardinality(Pending(p)) + 1
  BY <1>1, PendingFinite, FS_AddElement
<1>3. \A m : ~ (loc'[t].my < m) => Below(p, m)' = Below(p, m)  BY <1>1 DEF Below
<1> QED  BY <1>1, <1>2, <1>3

\* The claim of t at p is no longer pending.
LEMMA PendingLess ==
    ASSUME NEW t \in Threads, NEW p, OnlyMoves(t), t \in Pending(p), t \notin Pending(p)'
    PROVE  /\ Cardinality(Pending(p)') = Cardinality(Pending(p)) - 1
           /\ \A u \in Pending(p)' : u # t /\ u \in Pending(p) /\ loc'[u] = loc[u]
           /\ \A m : loc[t].my < m =>
                 Cardinality(Below(p, m)') = Cardinality(Below(p, m)) - 1
           /\ \A m : ~ (loc[t].my < m) => Below(p, m)' = Below(p, m)
<1>1. Pending(p)' = Pending(p) \ {t} /\ \A u \in Pending(p)' : loc'[u] = loc[u]
  BY DEF Pending, OnlyMoves
<1>2. Cardinality(Pending(p)') = Cardinality(Pending(p)) - 1
  BY <1>1, PendingFinite, FS_RemoveElement
<1>3. ASSUME NEW m, loc[t].my < m
      PROVE  Cardinality(Below(p, m)') = Cardinality(Below(p, m)) - 1
  <2>1. Below(p, m)' = Below(p, m) \ {t} /\ t \in Below(p, m)
    BY <1>1, <1>3 DEF Below
  <2> QED  BY <2>1, PendingFinite, FS_RemoveElement
<1>4. ASSUME NEW m, ~ (loc[t].my < m)
      PROVE  Below(p, m)' = Below(p, m)
  BY <1>1, <1>4 DEF Below
<1> QED  BY <1>1, <1>2, <1>3, <1>4

-----------------------------------------------------------------------------
\* A thread claims the next element: its loaded overcommit is behind the counter,
\* so the claim allows for everything that is pending or taken.
LEMMA ClaimIInv ==
    ASSUME IInv, NEW t \in Threads, Claim(t)
    PROVE  IInv'
<1> DEFINE p == loc[t].p
           opt == dequeueOptimisticCount
<1>1. /\ pc[t] = "claim" /\ pc' = [pc EXCEPT ![t] = "tail"]
      /\ loc' = [loc EXCEPT ![t].my = opt[p], ![t].tl = 0]
      /\ opt' = [opt EXCEPT ![p] = @ + 1]
      /\ headIndex' = headIndex /\ dequeueOvercommit' = dequeueOvercommit
      /\ tailIndex' = tailIndex /\ created' = created
  BY DEF Claim, At, Goto, DequeueLeaves, prodList
<1>2. /\ OnlyMoves(t) /\ Shape'
      /\ pc'[t] = "tail" /\ loc'[t].p = p /\ loc'[t].over = loc[t].over
      /\ loc'[t].my = opt[p]
  BY <1>1 DEF OnlyMoves, IInv, Shape
<1>3. CreatedOK'  BY <1>1 DEF IInv, CreatedOK
<1>4. CountersOK'  BY <1>1, CountUp DEF IInv, CountersOK
<1>5. LocalsOK'
  <2> SUFFICES ASSUME NEW u \in Threads, loc'[u].p \in Producers
               PROVE  /\ pc'[u] \in Loaded =>
                           loc'[u].over \in Nat /\ loc'[u].over <= dequeueOvercommit[loc'[u].p]
                      /\ pc'[u] \in Claimed =>
                           loc'[u].my \in Nat /\ loc'[u].my < opt'[loc'[u].p]
    BY <1>1 DEF LocalsOK
  <2>1. \A q \in Producers : opt[q] \in Nat /\ opt[q] <= opt'[q] /\ (q = p => opt[q] < opt'[q])
    BY <1>1 DEF IInv, CountersOK
  <2>2. CASE u = t  BY <1>1, <1>2, <2>1, <2>2 DEF IInv, LocalsOK, Loaded
  <2>3. CASE u # t
    <3>1. pc'[u] = pc[u] /\ loc'[u] = loc[u]  BY <1>2, <2>3 DEF OnlyMoves
    <3>2. opt[loc[u].p] \in Nat /\ opt[loc[u].p] <= opt'[loc[u].p] /\ opt'[loc[u].p] \in Nat
      BY <1>4, <2>1, <3>1 DEF CountersOK
    <3> QED  BY <3>1, <3>2 DEF IInv, LocalsOK
  <2> QED  BY <2>2, <2>3
<1>6. ASSUME NEW q \in Producers PROVE BalancedAt(q)' /\ FitsAt(q)'
  <2>1. CASE q # p
    <3>1. SameCounters(q)  BY <1>1, <2>1 DEF SameCounters, IInv, CountersOK
    <3>2. t \notin Pending(q) /\ t \notin Pending(q)'  BY <1>2, <2>1 DEF Pending
    <3> QED  BY <1>2, <3>1, <3>2, OtherProducer
  <2>2. CASE q = p
    <3>1. t \notin Pending(q) /\ t \in Pending(q)'  BY <1>1, <1>2, <2>2 DEF Pending
    <3>2. /\ Cardinality(Pending(q)') = Cardinality(Pending(q)) + 1
          /\ \A u \in Pending(q)' : u # t => u \in Pending(q) /\ loc'[u] = loc[u]
          /\ \A m : ~ (opt[q] < m) => Below(q, m)' = Below(q, m)
      BY <1>2, <2>2, <3>1, PendingMore
    <3>3. /\ opt'[q] = opt[q] + 1 /\ opt[q] \in Nat /\ headIndex[q] \in Nat
          /\ dequeueOvercommit[q] \in Nat
      BY <1>1, <2>2 DEF IInv, CountersOK
    <3>4. opt[q] - dequeueOvercommit[q] = headIndex[q] + Cardinality(Pending(q))
      BY DEF IInv, Balanced, BalancedAt
    <3>5. Cardinality(Pending(q)) \in Nat  BY PendingFinite
    <3>6. BalancedAt(q)'
      <4>1. opt'[q] - dequeueOvercommit[q] = headIndex[q] + Cardinality(Pending(q)')
        BY <3>2, <3>3, <3>4, <3>5
      <4> QED  BY <1>1, <4>1 DEF BalancedAt
    <3>7. PICK m \in 0 .. opt[q] : ClaimsFit(q, m)  BY DEF IInv, Fits, FitsAt
    <3>8. m \in 0 .. opt'[q] /\ ~ (opt[q] < m)  BY <3>3, <3>7
    <3>9. headIndex'[q] + Cardinality(Below(q, m)') <= tailIndex'[q]
      BY <1>1, <3>2, <3>7, <3>8 DEF ClaimsFit
    <3>10. ASSUME NEW u \in Pending(q)', NEW k \in Nat, loc'[u].my = k, k >= m
           PROVE  headIndex'[q] + Cardinality(Below(q, k + 1)') <= k + 1 - loc'[u].over
      <4>1. CASE u = t
        <5>1. loc[t].over \in Nat /\ loc[t].over <= dequeueOvercommit[q]
          BY <1>1, <2>2 DEF IInv, LocalsOK, Loaded
        <5>2. Below(q, k + 1)' \subseteq Pending(q)'  BY DEF Below
        <5>3. IsFiniteSet(Pending(q)')
          <6>1. Pending(q)' \subseteq Threads  BY DEF Pending
          <6> QED  BY <6>1, ThreadsAssumption, FS_Subset
        <5>4. /\ Cardinality(Below(q, k + 1)') \in Nat
              /\ Cardinality(Below(q, k + 1)') <= Cardinality(Pending(q)')
          BY <5>2, <5>3, FS_Subset, FS_CardinalityType
        <5>5. k = opt[q]  BY <1>2, <2>2, <3>10, <4>1
        <5>6. headIndex[q] + Cardinality(Below(q, k + 1)') <= k + 1 - loc[t].over
          BY <3>2, <3>3, <3>4, <3>5, <5>1, <5>4, <5>5
        <5> QED  BY <1>1, <1>2, <4>1, <5>6
      <4>2. CASE u # t
        <5>1. u \in Pending(q) /\ loc'[u] = loc[u]  BY <3>2, <3>10, <4>2
        <5>2. loc[u].my < opt[q]  BY <5>1 DEF Pending, IInv, LocalsOK, Claimed
        <5>3. Below(q, k + 1)' = Below(q, k + 1)  BY <3>2, <3>3, <3>10, <5>1, <5>2
        <5>4. headIndex[q] + Cardinality(Below(q, k + 1)) <= k + 1 - loc[u].over
          BY <3>7, <3>10, <5>1 DEF ClaimsFit
        <5> QED  BY <1>1, <5>1, <5>3, <5>4
      <4> QED  BY <4>1, <4>2
    <3>11. ClaimsFit(q, m)'  BY <3>9, <3>10 DEF ClaimsFit
    <3> QED  BY <3>6, <3>8, <3>11 DEF FitsAt
  <2> QED  BY <2>1, <2>2
<1> QED  BY <1>2, <1>3, <1>4, <1>5, <1>6 DEF IInv, Balanced, Fits

\* A thread whose claim is no longer pending has no claim, and keeps the locals of
\* the others within their counters, which only grow.
LEMMA LocalsLeave ==
    ASSUME IInv, NEW t \in Threads, OnlyMoves(t), CountersOK', pc'[t] \notin Loaded,
           \A q \in Producers : /\ dequeueOptimisticCount'[q] = dequeueOptimisticCount[q]
                                /\ dequeueOvercommit[q] <= dequeueOvercommit'[q]
    PROVE  LocalsOK'
<1> SUFFICES ASSUME NEW u \in Threads, loc'[u].p \in Producers
             PROVE  /\ pc'[u] \in Loaded =>
                         loc'[u].over \in Nat /\ loc'[u].over <= dequeueOvercommit'[loc'[u].p]
                    /\ pc'[u] \in Claimed =>
                         loc'[u].my \in Nat /\ loc'[u].my < dequeueOptimisticCount'[loc'[u].p]
  BY DEF LocalsOK
<1>1. CASE u = t  BY <1>1 DEF Loaded, Claimed
<1>2. CASE u # t
  <2>1. pc'[u] = pc[u] /\ loc'[u] = loc[u]  BY <1>2 DEF OnlyMoves
  <2>2. /\ dequeueOptimisticCount'[loc[u].p] = dequeueOptimisticCount[loc[u].p]
        /\ dequeueOvercommit[loc[u].p] <= dequeueOvercommit'[loc[u].p]
        /\ dequeueOvercommit[loc[u].p] \in Nat /\ dequeueOvercommit'[loc[u].p] \in Nat
    BY <2>1 DEF IInv, CountersOK
  <2> QED  BY <2>1, <2>2 DEF IInv, LocalsOK
<1> QED  BY <1>1, <1>2

\* A claim that turned out to be good gets the element at headIndex: either a
\* higher claim was good before, and there is an element for this one too, or this
\* is the highest one, and the tail it has just seen is behind all of them.
LEMMA TakeIInv ==
    ASSUME IInv, NEW t \in Threads, CheckTail(t), pc'[t] = "lookup"
    PROVE  IInv'
<1> DEFINE p == loc[t].p
           my == loc[t].my
<1>1. /\ pc[t] = "tail" /\ pc' = [pc EXCEPT ![t] = "lookup"]
      /\ my - loc[t].over < tailIndex[p]
      /\ loc' = [loc EXCEPT ![t].idx = headIndex[p]]
      /\ headIndex' = [headIndex EXCEPT ![p] = @ + 1]
      /\ dequeueOptimisticCount' = dequeueOptimisticCount
      /\ dequeueOvercommit' = dequeueOvercommit
      /\ tailIndex' = tailIndex /\ created' = created
  BY DEF CheckTail, At, Goto, DequeueLeaves, prodList, IInv, Shape
<1>2. OnlyMoves(t) /\ Shape'  BY <1>1 DEF OnlyMoves, IInv, Shape
<1>3. CreatedOK'  BY <1>1 DEF IInv, CreatedOK
<1>4. CountersOK'  BY <1>1, CountUp DEF IInv, CountersOK
<1>5. LocalsOK'
  <2>1. \A q \in Producers : dequeueOvercommit[q] <= dequeueOvercommit'[q]
    BY <1>1 DEF IInv, CountersOK
  <2>2. pc'[t] \notin Loaded  BY DEF Loaded
  <2> QED  BY <1>1, <1>2, <1>4, <2>1, <2>2, LocalsLeave
<1>6. ASSUME NEW q \in Producers PROVE BalancedAt(q)' /\ FitsAt(q)'
  <2>1. CASE q # p
    <3>1. SameCounters(q)  BY <1>1, <2>1 DEF SameCounters, IInv, CountersOK
    <3>2. t \notin Pending(q) /\ t \notin Pending(q)'  BY <2>1 DEF Pending
    <3> QED  BY <1>2, <3>1, <3>2, OtherProducer
  <2>2. CASE q = p
    <3>1. t \in Pending(q) /\ t \notin Pending(q)'  BY <1>1, <2>2 DEF Pending
    <3>2. /\ Cardinality(Pending(q)') = Cardinality(Pending(q)) - 1
          /\ \A u \in Pending(q)' : u # t /\ u \in Pending(q) /\ loc'[u] = loc[u]
          /\ \A m : my < m => Cardinality(Below(q, m)') = Cardinality(Below(q, m)) - 1
          /\ \A m : ~ (my < m) => Below(q, m)' = Below(q, m)
      BY <1>2, <3>1, PendingLess
    <3>3. /\ headIndex'[q] = headIndex[q] + 1 /\ headIndex[q] \in Nat
          /\ dequeueOptimisticCount[q] \in Nat /\ dequeueOvercommit[q] \in Nat
          /\ tailIndex[q] \in Nat
      BY <1>1, <2>2 DEF IInv, CountersOK
    <3>4. /\ Cardinality(Pending(q)) \in Nat
          /\ \A m : Cardinality(Below(q, m)) \in Nat
      BY PendingFinite
    <3>5. BalancedAt(q)'
      <4>1. dequeueOptimisticCount[q] - dequeueOvercommit[q]
                = headIndex[q] + Cardinality(Pending(q))
        BY DEF IInv, Balanced, BalancedAt
      <4>2. dequeueOptimisticCount[q] - dequeueOvercommit[q]
                = headIndex'[q] + Cardinality(Pending(q)')
        BY <3>2, <3>3, <3>4, <4>1
      <4> QED  BY <1>1, <4>2 DEF BalancedAt
    <3>6. /\ my \in Nat /\ my < dequeueOptimisticCount[q]
          /\ loc[t].over \in Nat
      BY <1>1, <2>2 DEF IInv, LocalsOK, Claimed, Loaded
    <3>7. PICK m \in 0 .. dequeueOptimisticCount[q] : ClaimsFit(q, m)
      BY DEF IInv, Fits, FitsAt
    <3>8. ASSUME NEW u \in Pending(q)', NEW k \in Nat, loc'[u].my = k, k >= m, k >= my
          PROVE  headIndex'[q] + Cardinality(Below(q, k + 1)') <= k + 1 - loc'[u].over
      <4>1. u \in Pending(q) /\ loc'[u] = loc[u]  BY <3>2
      <4>2. headIndex[q] + Cardinality(Below(q, k + 1)) <= k + 1 - loc[u].over
        BY <3>7, <3>8, <4>1 DEF ClaimsFit
      <4>3. my < k + 1  BY <3>6, <3>8
      <4>4. headIndex'[q] + Cardinality(Below(q, k + 1)')
                = headIndex[q] + Cardinality(Below(q, k + 1))
        BY <3>2, <3>3, <3>4, <4>3
      <4> QED  BY <4>1, <4>2, <4>4
    <3>9. CASE my < m
      <4>1. headIndex'[q] + Cardinality(Below(q, m)')
                = headIndex[q] + Cardinality(Below(q, m))
        BY <3>2, <3>3, <3>4, <3>9
      <4>2. headIndex'[q] + Cardinality(Below(q, m)') <= tailIndex'[q]
        BY <1>1, <3>7, <4>1 DEF ClaimsFit
      <4>3. \A k \in Nat : k >= m => k >= my  BY <3>6, <3>7, <3>9
      <4>4. ClaimsFit(q, m)'  BY <3>8, <4>2, <4>3 DEF ClaimsFit
      <4> QED  BY <1>1, <3>5, <3>7, <4>4 DEF FitsAt
    <3>10. CASE ~ (my < m)
      <4>1. PICK n \in Nat : n = my + 1  BY <3>6
      <4>2. n \in 0 .. dequeueOptimisticCount[q] /\ my < n  BY <3>3, <3>6, <4>1
      <4>3. headIndex[q] + Cardinality(Below(q, n)) <= n - loc[t].over
        <5>1. my >= m  BY <3>6, <3>7, <3>10
        <5> QED  BY <3>1, <3>6, <3>7, <4>1, <5>1 DEF ClaimsFit
      <4>4. headIndex'[q] + Cardinality(Below(q, n)') <= tailIndex[q]
        <5>1. headIndex'[q] + Cardinality(Below(q, n)')
                  = headIndex[q] + Cardinality(Below(q, n))
          BY <3>2, <3>3, <3>4, <4>2
        <5>2. n - loc[t].over <= tailIndex[q]  BY <1>1, <2>2, <3>3, <3>6, <4>1
        <5>3. Cardinality(Below(q, n)) \in Nat  BY <3>4
        <5> QED  BY <3>3, <3>6, <4>1, <4>3, <5>1, <5>2, <5>3
      <4>5. \A k \in Nat : k >= n => k >= m /\ k >= my  BY <3>6, <3>7, <3>10, <4>1
      <4>6. ClaimsFit(q, n)'  BY <1>1, <3>8, <4>4, <4>5 DEF ClaimsFit
      <4> QED  BY <1>1, <3>5, <4>2, <4>6 DEF FitsAt
    <3> QED  BY <3>9, <3>10
  <2> QED  BY <2>1, <2>2
<1> QED  BY <1>2, <1>3, <1>4, <1>5, <1>6 DEF IInv, Balanced, Fits

-----------------------------------------------------------------------------
\* A thread goes to another place, with or without new locals.
LEMMA PlaceMoves ==
    ASSUME Shape, NEW t \in Threads, NEW x, Goto(t, x),
           \/ loc' = loc
           \/ \E r : loc' = [loc EXCEPT ![t] = r] /\ {"p", "over", "my"} \subseteq DOMAIN r
    PROVE  OnlyMoves(t) /\ Shape' /\ pc'[t] = x
<1>1. DOMAIN pc' = Threads /\ pc'[t] = x /\ \A u \in Threads \ {t} : pc'[u] = pc[u]
  BY DEF Goto, Shape
<1>2. /\ DOMAIN loc' = Threads /\ \A u \in Threads \ {t} : loc'[u] = loc[u]
      /\ {"p", "over", "my"} \subseteq DOMAIN loc'[t]
  BY DEF Shape
<1> QED  BY <1>1, <1>2 DEF OnlyMoves, Shape

\* The locals of a thread that begins, returns or goes on with another producer.
LEMMA BlankShape ==
    /\ {"p", "over", "my"} \subseteq DOMAIN Blank
    /\ \A b, p : {"p", "over", "my"} \subseteq DOMAIN [Blank EXCEPT !.best = b, !.p = p]
    /\ \A b, e, p : {"p", "over", "my"} \subseteq
                        DOMAIN [Blank EXCEPT !.best = b, !.more = e, !.p = p]
<1>1. DOMAIN Blank = {"p", "over", "my", "idx", "hdr", "tl", "ent", "blk", "el", "ptr",
                      "best", "size", "more"}
  BY DEF Blank
<1> QED  BY <1>1

\* Return(t) and TryNext(t) leave the dequeue() of this producer.
LEMMA ReturnMoves ==
    ASSUME Shape, NEW t \in Threads, Return(t)
    PROVE  OnlyMoves(t) /\ Shape' /\ pc'[t] = "idle"
<1>1. {"p", "over", "my"} \subseteq DOMAIN Blank  BY BlankShape
<1> QED  BY <1>1, PlaceMoves DEF Return

\* The next producer of the scan in try_dequeue(), or its end.
LEMMA TryNextMoves ==
    ASSUME Shape, NEW t \in Threads, TryNext(t)
    PROVE  OnlyMoves(t) /\ Shape' /\ pc'[t] \in {"idle", "check"}
<1>1. CASE Return(t)  BY <1>1, ReturnMoves
<1>2. CASE ~ Return(t)
  <2>1. /\ Goto(t, "check")
        /\ \E p : loc' = [loc EXCEPT ![t] =
                            [Blank EXCEPT !.best = loc[t].best, !.more = TRUE, !.p = p]]
    BY <1>2, Zenon DEF TryNext
  <2>2. PICK p : loc' = [loc EXCEPT ![t] =
                           [Blank EXCEPT !.best = loc[t].best, !.more = TRUE, !.p = p]]
    BY <2>1, Zenon
  <2> DEFINE r == [Blank EXCEPT !.best = loc[t].best, !.more = TRUE, !.p = p]
  <2>3. {"p", "over", "my"} \subseteq DOMAIN r  BY BlankShape, Zenon
  <2>4. loc' = [loc EXCEPT ![t] = r]  BY <2>2
  <2> HIDE DEF r
  <2> QED  BY <2>1, <2>3, <2>4, PlaceMoves
<1> QED  BY <1>1, <1>2

\* A claim too many is made good: it leaves the pending ones, and the overcommit
\* that others have loaded is still behind.
LEMMA OvercommitIInv ==
    ASSUME IInv, NEW t \in Threads, Overcommit(t)
    PROVE  IInv'
<1> DEFINE p == loc[t].p
           my == loc[t].my
<1>1. /\ pc[t] = "overcommit"
      /\ dequeueOvercommit' = [dequeueOvercommit EXCEPT ![p] = @ + 1]
      /\ headIndex' = headIndex /\ dequeueOptimisticCount' = dequeueOptimisticCount
      /\ tailIndex' = tailIndex /\ created' = created
  BY DEF Overcommit, At, DequeueLeaves, prodList
<1>2. OnlyMoves(t) /\ Shape' /\ pc'[t] \in {"idle", "check"}
  BY TryNextMoves DEF Overcommit, IInv
<1>3. CreatedOK'  BY <1>1 DEF IInv, CreatedOK
<1>4. CountersOK'  BY <1>1, CountUp DEF IInv, CountersOK
<1>5. LocalsOK'
  <2>1. \A q \in Producers : dequeueOvercommit[q] <= dequeueOvercommit'[q]
    BY <1>1 DEF IInv, CountersOK
  <2>2. pc'[t] \notin Loaded  BY <1>2 DEF Loaded
  <2> QED  BY <1>1, <1>2, <1>4, <2>1, <2>2, LocalsLeave
<1>6. ASSUME NEW q \in Producers PROVE BalancedAt(q)' /\ FitsAt(q)'
  <2>1. CASE q # p
    <3>1. SameCounters(q)  BY <1>1, <2>1 DEF SameCounters, IInv, CountersOK
    <3>2. t \notin Pending(q) /\ t \notin Pending(q)'  BY <1>2, <2>1 DEF Pending
    <3> QED  BY <1>2, <3>1, <3>2, OtherProducer
  <2>2. CASE q = p
    <3>1. t \in Pending(q) /\ t \notin Pending(q)'  BY <1>1, <1>2, <2>2 DEF Pending
    <3>2. /\ Cardinality(Pending(q)') = Cardinality(Pending(q)) - 1
          /\ \A u \in Pending(q)' : u # t /\ u \in Pending(q) /\ loc'[u] = loc[u]
          /\ \A m : my < m => Cardinality(Below(q, m)') = Cardinality(Below(q, m)) - 1
          /\ \A m : ~ (my < m) => Below(q, m)' = Below(q, m)
      BY <1>2, <3>1, PendingLess
    <3>3. /\ dequeueOvercommit'[q] = dequeueOvercommit[q] + 1 /\ headIndex[q] \in Nat
          /\ dequeueOptimisticCount[q] \in Nat /\ dequeueOvercommit[q] \in Nat
          /\ tailIndex[q] \in Nat
      BY <1>1, <2>2 DEF IInv, CountersOK
    <3>4. /\ Cardinality(Pending(q)) \in Nat
          /\ \A m : Cardinality(Below(q, m)) \in Nat
      BY PendingFinite
    <3>5. BalancedAt(q)'
      <4>1. dequeueOptimisticCount[q] - dequeueOvercommit[q]
                = headIndex[q] + Cardinality(Pending(q))
        BY DEF IInv, Balanced, BalancedAt
      <4>2. dequeueOptimisticCount[q] - dequeueOvercommit'[q]
                = headIndex[q] + Cardinality(Pending(q)')
        BY <3>2, <3>3, <3>4, <4>1
      <4> QED  BY <1>1, <4>2 DEF BalancedAt
    <3>6. PICK m \in 0 .. dequeueOptimisticCount[q] : ClaimsFit(q, m)
      BY DEF IInv, Fits, FitsAt
    <3>7. \A k : /\ Cardinality(Below(q, k)') \in Int
                 /\ Cardinality(Below(q, k)') <= Cardinality(Below(q, k))
      <4> SUFFICES ASSUME NEW k
                   PROVE  /\ Cardinality(Below(q, k)') \in Int
                          /\ Cardinality(Below(q, k)') <= Cardinality(Below(q, k))
        OBVIOUS
      <4>1. Cardinality(Below(q, k)) \in Nat  BY <3>4
      <4>2. CASE my < k  BY <3>2, <4>1, <4>2
      <4>3. CASE ~ (my < k)  BY <3>2, <4>1, <4>3
      <4> QED  BY <4>2, <4>3
    <3>8. headIndex'[q] + Cardinality(Below(q, m)') <= tailIndex'[q]
      <4>1. headIndex[q] + Cardinality(Below(q, m)) <= tailIndex[q]
        BY <3>6 DEF ClaimsFit
      <4>2. /\ Cardinality(Below(q, m)) \in Nat /\ Cardinality(Below(q, m)') \in Int
            /\ Cardinality(Below(q, m)') <= Cardinality(Below(q, m))
        BY <3>4, <3>7
      <4> QED  BY <1>1, <3>3, <4>1, <4>2
    <3>9. ASSUME NEW u \in Pending(q)', NEW k \in Nat, loc'[u].my = k, k >= m
          PROVE  headIndex'[q] + Cardinality(Below(q, k + 1)') <= k + 1 - loc'[u].over
      <4>1. u \in Pending(q) /\ loc'[u] = loc[u]  BY <3>2
      <4>2. headIndex[q] + Cardinality(Below(q, k + 1)) <= k + 1 - loc[u].over
        BY <3>6, <3>9, <4>1 DEF ClaimsFit
      <4>3. loc[u].over \in Nat  BY <4>1 DEF Pending, IInv, LocalsOK, Loaded
      <4>4. /\ Cardinality(Below(q, k + 1)) \in Nat /\ Cardinality(Below(q, k + 1)') \in Int
            /\ Cardinality(Below(q, k + 1)') <= Cardinality(Below(q, k + 1))
        BY <3>4, <3>7
      <4> QED  BY <1>1, <3>3, <4>1, <4>2, <4>3, <4>4
    <3>10. ClaimsFit(q, m)'  BY <3>8, <3>9 DEF ClaimsFit
    <3> QED  BY <1>1, <3>5, <3>6, <3>10 DEF FitsAt
  <2> QED  BY <2>1, <2>2
<1> QED  BY <1>2, <1>3, <1>4, <1>5, <1>6 DEF IInv, Balanced, Fits

-----------------------------------------------------------------------------
\* A step of t outside the part of dequeue() that claims.
Away(t) ==
    /\ OnlyMoves(t) /\ Shape' /\ pc[t] \notin Claimed /\ pc'[t] \notin Loaded
    /\ UNCHANGED <<headIndex, dequeueOptimisticCount, dequeueOvercommit>>

\* A step of a thread that neither counts nor claims keeps the invariant.
LEMMA AwayIInv ==
    ASSUME IInv, NEW t \in Threads, Away(t), CreatedOK', tailIndex' \in [Producers -> Nat],
           \A p \in Producers : tailIndex[p] <= tailIndex'[p]
    PROVE  IInv'
<1>1. \A u \in Threads : pc'[u] \in Claimed <=> pc[u] \in Claimed
  BY DEF Away, OnlyMoves, Loaded, Claimed
<1>2. \A u \in Threads : pc[u] \in Claimed => loc'[u] = loc[u]
  BY DEF Away, OnlyMoves
<1>3. \A u \in Threads : pc'[u] \in Loaded \ Claimed =>
          pc[u] \in Loaded \ Claimed /\ loc'[u] = loc[u]
  BY DEF Away, OnlyMoves
<1>4. Quiet  BY <1>1, <1>2, <1>3 DEF Quiet, Away, counters
<1> QED  BY <1>4, QuietIInv DEF Away

\* The same when no element is added and no producer made.
LEMMA AwaySame ==
    ASSUME IInv, NEW t \in Threads, Away(t), created' = created, tailIndex' = tailIndex
    PROVE  IInv'
<1>1. CreatedOK' /\ tailIndex' \in [Producers -> Nat]
  BY DEF IInv, CreatedOK, CountersOK
<1>2. \A p \in Producers : tailIndex[p] <= tailIndex'[p]  BY DEF IInv, CountersOK
<1> QED  BY <1>1, <1>2, AwayIInv

\* enqueue() begins, with a producer of its own, a recycled or a new one.
LEMMA BeginEnqueueIInv ==
    ASSUME IInv, NEW t \in Threads, BeginEnqueue(t)
    PROVE  IInv'
<1>1. PICK p \in Producers : /\ OwnProducer(t, p) \/ RecycleProducer(t, p) \/ AddProducer(t, p)
                             /\ loc' = [loc EXCEPT ![t].p = p]
  BY DEF BeginEnqueue
<1>2. /\ pc[t] = "idle" /\ pc' = [pc EXCEPT ![t] = "enqueue"] /\ tailIndex' = tailIndex
      /\ UNCHANGED <<headIndex, dequeueOptimisticCount, dequeueOvercommit>>
  BY DEF BeginEnqueue, At, Goto, counters
<1>3. Away(t)  BY <1>1, <1>2 DEF Away, OnlyMoves, IInv, Shape, Loaded, Claimed
<1>4. created' = created \/ (created' = created + 1 /\ created' \in Producers)
  BY <1>1 DEF OwnProducer, RecycleProducer, AddProducer, prodList
<1>5. CreatedOK'  BY <1>4, ProducersAssumption DEF IInv, CreatedOK, Producers
<1>6. tailIndex' \in [Producers -> Nat] /\ \A q \in Producers : tailIndex[q] <= tailIndex'[q]
  BY <1>2 DEF IInv, CountersOK
<1> QED  BY <1>3, <1>5, <1>6, AwayIInv

\* It gets a block, or not.
LEMMA BlockIInv ==
    ASSUME IInv, NEW t \in Threads,
           \/ InsertBlockIndexEntry(t) \/ IndexNotGrown(t) \/ FromInitialPool(t)
           \/ FromFreeList(t) \/ FromHeap(t) \/ RewindBlockIndexTail(t) \/ LinkBlock(t)
    PROVE  IInv'
<1> DEFINE Frame == /\ created' = created /\ tailIndex' = tailIndex
                    /\ UNCHANGED <<headIndex, dequeueOptimisticCount, dequeueOvercommit>>
           Ends == pc[t] \notin Claimed /\ Return(t)
           Goes == /\ pc[t] \notin Claimed
                   /\ \E x \in {"requisition", "link", "freeList", "create", "rewind", "store"} :
                         Goto(t, x)
                   /\ \/ loc' = loc
                      \/ \E e : loc' = [loc EXCEPT ![t].ent = e]
                      \/ \E b : loc' = [loc EXCEPT ![t].blk = b]
<1>1. InsertBlockIndexEntry(t) => Frame /\ Goes
  BY Zenon DEF InsertBlockIndexEntry, At, prodList, counters, Claimed
<1>2. IndexNotGrown(t) => Frame /\ Ends
  BY DEF IndexNotGrown, At, prodList, counters, Claimed
<1>3. FromInitialPool(t) => Frame /\ Goes
  BY DEF FromInitialPool, At, prodList, counters, Claimed
<1>4. FromFreeList(t) => Frame /\ Goes
  BY DEF FromFreeList, At, prodList, counters, Claimed
<1>5. FromHeap(t) => Frame /\ Goes  BY DEF FromHeap, At, prodList, counters, Claimed
<1>6. RewindBlockIndexTail(t) => Frame /\ Ends
  BY DEF RewindBlockIndexTail, At, prodList, counters, Claimed
<1>7. LinkBlock(t) => Frame /\ Goes
  BY DEF LinkBlock, At, prodList, counters, Claimed
<1>8. CASE Frame /\ Ends
  <2>1. Away(t)  BY <1>8, ReturnMoves DEF Away, IInv, Loaded
  <2> QED  BY <1>8, <2>1, AwaySame
<1>9. CASE Frame /\ Goes
  <2>1. PICK x \in {"requisition", "link", "freeList", "create", "rewind", "store"} : Goto(t, x)
    BY <1>9
  <2>2. OnlyMoves(t) /\ Shape' /\ pc'[t] = x
    BY <1>9, <2>1 DEF Goto, OnlyMoves, IInv, Shape
  <2>3. Away(t)  BY <1>9, <2>2 DEF Away, Loaded
  <2> QED  BY <1>9, <2>3, AwaySame
<1> QED  BY <1>1, <1>2, <1>3, <1>4, <1>5, <1>6, <1>7, <1>8, <1>9, Zenon

\* It shows its element: the tail grows.
LEMMA StoreElementIInv ==
    ASSUME IInv, NEW t \in Threads, StoreElement(t)
    PROVE  IInv'
<1>1. /\ pc[t] \in {"store", "enqueue"} /\ Return(t) /\ created' = created
      /\ tailIndex' = [tailIndex EXCEPT ![loc[t].p] = @ + 1]
      /\ UNCHANGED <<headIndex, dequeueOptimisticCount, dequeueOvercommit>>
  BY DEF StoreElement, At, prodList, counters
<1>2. Away(t)  BY <1>1, ReturnMoves DEF Away, IInv, Loaded, Claimed
<1>3. tailIndex' \in [Producers -> Nat]  BY <1>1, CountUp DEF IInv, CountersOK
<1>4. \A p \in Producers : tailIndex[p] <= tailIndex'[p]
  BY <1>1 DEF IInv, CountersOK
<1>5. CreatedOK'  BY <1>1 DEF IInv, CreatedOK
<1> QED  BY <1>2, <1>3, <1>4, <1>5, AwayIInv

\* try_dequeue() looks for a producer.
LEMMA ScoreIInv ==
    ASSUME IInv, NEW t \in Threads, BeginDequeue(t) \/ Score(t)
    PROVE  IInv'
<1> DEFINE Frame == /\ created' = created /\ tailIndex' = tailIndex
                    /\ UNCHANGED <<headIndex, dequeueOptimisticCount, dequeueOvercommit>>
                    /\ pc[t] \notin Claimed
<1>1. CASE BeginDequeue(t)
  <2>1. /\ Frame /\ pc' = [pc EXCEPT ![t] = "score"]
        /\ loc' = [loc EXCEPT ![t].ptr = created]
    BY <1>1 DEF BeginDequeue, At, Goto, prodList, counters, Claimed
  <2>2. Away(t)  BY <2>1 DEF Away, OnlyMoves, IInv, Shape, Loaded
  <2> QED  BY <2>1, <2>2, AwaySame
<1>2. CASE Score(t)
  <2>1. Frame /\ pc[t] = "score"
    BY <1>2 DEF Score, DequeueLeaves, At, prodList, counters, Claimed
  <2>2. \/ /\ pc' = pc
           /\ \E b, z : loc' = [loc EXCEPT ![t].ptr = @ - 1, ![t].best = b, ![t].size = z]
        \/ /\ Goto(t, "check")
           /\ loc' = [loc EXCEPT ![t] = [Blank EXCEPT !.best = loc[t].best, !.p = loc[t].best]]
        \/ Return(t)
    BY <1>2, Zenon DEF Score
  <2>3. ASSUME pc' = pc,
               \E b, z : loc' = [loc EXCEPT ![t].ptr = @ - 1, ![t].best = b, ![t].size = z]
        PROVE  Away(t)
    BY <2>1, <2>3 DEF Away, OnlyMoves, IInv, Shape, Loaded, Claimed
  <2>4. ASSUME Goto(t, "check"),
               loc' = [loc EXCEPT ![t] = [Blank EXCEPT !.best = loc[t].best, !.p = loc[t].best]]
        PROVE  Away(t)
    <3> DEFINE r == [Blank EXCEPT !.best = loc[t].best, !.p = loc[t].best]
    <3>1. {"p", "over", "my"} \subseteq DOMAIN r  BY BlankShape, Zenon
    <3>2. loc' = [loc EXCEPT ![t] = r]  BY <2>4
    <3> HIDE DEF r
    <3>3. OnlyMoves(t) /\ Shape' /\ pc'[t] = "check"
      BY <2>4, <3>1, <3>2, PlaceMoves DEF IInv
    <3> QED  BY <2>1, <3>3 DEF Away, Loaded
  <2>5. ASSUME Return(t) PROVE Away(t)
    BY <2>1, <2>5, ReturnMoves DEF Away, IInv, Loaded
  <2>6. Away(t)  BY <2>2, <2>3, <2>4, <2>5, Zenon
  <2> QED  BY <2>1, <2>6, AwaySame
<1> QED  BY <1>1, <1>2

\* dequeue() loads the overcommit.
LEMMA LoadOvercommitIInv ==
    ASSUME IInv, NEW t \in Threads, LoadOvercommit(t)
    PROVE  IInv'
<1>1. /\ pc[t] = "check" /\ pc' = [pc EXCEPT ![t] = "count"]
      /\ loc' = [loc EXCEPT ![t].tl = tailIndex[loc[t].p],
                            ![t].over = dequeueOvercommit[loc[t].p]]
      /\ created' = created /\ tailIndex' = tailIndex
      /\ UNCHANGED <<headIndex, dequeueOptimisticCount, dequeueOvercommit>>
  BY DEF LoadOvercommit, At, Goto, DequeueLeaves, prodList, counters
<1>2. OnlyMoves(t) /\ Shape' /\ pc'[t] = "count"  BY <1>1 DEF OnlyMoves, IInv, Shape
<1>3. loc'[t].p = loc[t].p /\ loc'[t].over = dequeueOvercommit[loc[t].p]
  BY <1>1 DEF IInv, Shape
<1>4. \A u \in Threads : pc'[u] \in Claimed <=> pc[u] \in Claimed
  BY <1>1, <1>2 DEF OnlyMoves, Claimed
<1>5. \A u \in Threads : pc[u] \in Claimed => loc'[u] = loc[u]
  BY <1>1, <1>2 DEF OnlyMoves, Claimed
<1>6. \A u \in Threads : pc'[u] \in Loaded \ Claimed =>
          \/ pc[u] \in Loaded \ Claimed /\ loc'[u].p = loc[u].p /\ loc'[u].over = loc[u].over
          \/ loc'[u].over = dequeueOvercommit[loc'[u].p]
  BY <1>2, <1>3 DEF OnlyMoves
<1>7. tailIndex' \in [Producers -> Nat] /\ \A p \in Producers : tailIndex[p] <= tailIndex'[p]
  BY <1>1 DEF IInv, CountersOK
<1>8. Quiet  BY <1>1, <1>4, <1>5, <1>6, <1>7 DEF Quiet, counters
<1>9. CreatedOK'  BY <1>1 DEF IInv, CreatedOK
<1> QED  BY <1>2, <1>8, <1>9, QuietIInv

\* It compares the counters with the tail, and claims only then.
LEMMA CheckIInv ==
    ASSUME IInv, NEW t \in Threads, Check(t)
    PROVE  IInv'
<1>1. /\ pc[t] = "count" /\ created' = created /\ tailIndex' = tailIndex
      /\ UNCHANGED <<headIndex, dequeueOptimisticCount, dequeueOvercommit>>
      /\ TryNext(t) \/ (Goto(t, "claim") /\ loc' = loc)
  BY DEF Check, At, DequeueLeaves, prodList, counters
<1>2. CASE TryNext(t)
  <2>1. Away(t)  BY <1>1, <1>2, TryNextMoves DEF Away, IInv, Loaded, Claimed
  <2> QED  BY <1>1, <2>1, AwaySame
<1>3. CASE Goto(t, "claim") /\ loc' = loc
  <2>1. OnlyMoves(t) /\ Shape' /\ pc'[t] = "claim"  BY <1>3, PlaceMoves DEF IInv
  <2>2. \A u \in Threads : pc'[u] \in Claimed <=> pc[u] \in Claimed
    BY <1>1, <2>1 DEF OnlyMoves, Claimed
  <2>3. \A u \in Threads : pc'[u] \in Loaded \ Claimed => pc[u] \in Loaded \ Claimed
    BY <1>1, <2>1 DEF OnlyMoves, Claimed, Loaded
  <2>4. Quiet  BY <1>1, <1>3, <2>2, <2>3 DEF Quiet, counters, IInv, CountersOK
  <2>5. CreatedOK'  BY <1>1 DEF IInv, CreatedOK
  <2> QED  BY <2>1, <2>4, <2>5, QuietIInv
<1> QED  BY <1>1, <1>2, <1>3

\* It finds that its claim was one too many.
LEMMA NoElementIInv ==
    ASSUME IInv, NEW t \in Threads, CheckTail(t), pc'[t] # "lookup"
    PROVE  IInv'
<1>1. /\ pc[t] = "tail" /\ created' = created /\ tailIndex' = tailIndex
      /\ UNCHANGED <<headIndex, dequeueOptimisticCount, dequeueOvercommit>>
      /\ Goto(t, "overcommit") /\ loc' = loc
  BY DEF CheckTail, At, Goto, DequeueLeaves, prodList, counters, IInv, Shape
<1>2. OnlyMoves(t) /\ Shape' /\ pc'[t] = "overcommit"  BY <1>1, PlaceMoves DEF IInv
<1>3. \A u \in Threads : pc'[u] \in Claimed <=> pc[u] \in Claimed
  BY <1>1, <1>2 DEF OnlyMoves, Claimed
<1>4. \A u \in Threads : pc'[u] \in Loaded \ Claimed => pc[u] \in Loaded \ Claimed
  BY <1>1, <1>2 DEF OnlyMoves, Claimed, Loaded
<1>5. Quiet  BY <1>1, <1>3, <1>4 DEF Quiet, counters, IInv, CountersOK
<1>6. CreatedOK'  BY <1>1 DEF IInv, CreatedOK
<1> QED  BY <1>2, <1>5, <1>6, QuietIInv

\* With an index it reads the element, and may give the block up.
LEMMA ReadIInv ==
    ASSUME IInv, NEW t \in Threads,
           \/ Lookup(t) \/ FindEntry(t) \/ ReadElement(t) \/ SetEmpty(t) \/ GiveUpBlock(t)
           \/ Added(t)
    PROVE  IInv'
<1> DEFINE Frame == /\ created' = created /\ tailIndex' = tailIndex
                    /\ UNCHANGED <<headIndex, dequeueOptimisticCount, dequeueOvercommit>>
                    /\ pc[t] \notin Claimed
           Goes == /\ \E x \in {"entry", "read", "empty", "unindex", "adding"} : Goto(t, x)
                   /\ \/ loc' = loc
                      \/ \E a, b : loc' = [loc EXCEPT ![t].hdr = a, ![t].tl = b]
                      \/ \E a, b : loc' = [loc EXCEPT ![t].ent = a, ![t].blk = b]
                      \/ \E a : loc' = [loc EXCEPT ![t].el = a]
<1>1. Lookup(t) => Frame /\ Goes
  BY Zenon DEF Lookup, At, DequeueLeaves, prodList, counters, Claimed
<1>2. FindEntry(t) => Frame /\ Goes
  BY Zenon DEF FindEntry, At, DequeueLeaves, prodList, counters, Claimed
<1>3. ReadElement(t) => Frame /\ Goes
  BY DEF ReadElement, At, DequeueLeaves, prodList, counters, Claimed
<1>4. SetEmpty(t) => Frame /\ (Goes \/ Return(t))
  BY DEF SetEmpty, At, DequeueLeaves, prodList, counters, Claimed
<1>5. GiveUpBlock(t) => Frame /\ (Goes \/ Return(t))
  BY DEF GiveUpBlock, At, DequeueLeaves, prodList, counters, Claimed
<1>6. Added(t) => Frame /\ Return(t)
  BY DEF Added, At, DequeueLeaves, prodList, counters, Claimed
<1>7. CASE Frame /\ Return(t)
  <2>1. Away(t)  BY <1>7, ReturnMoves DEF Away, IInv, Loaded
  <2> QED  BY <1>7, <2>1, AwaySame
<1>8. CASE Frame /\ Goes
  <2>1. PICK x \in {"entry", "read", "empty", "unindex", "adding"} : Goto(t, x)
    BY <1>8
  <2>2. pc' = [pc EXCEPT ![t] = x]  BY <2>1 DEF Goto
  <2>3. Shape' /\ pc'[t] = x  BY <1>8, <2>2 DEF IInv, Shape
  <2>4. OnlyMoves(t)  BY <1>8, <2>2 DEF OnlyMoves, IInv, Shape
  <2>5. Away(t)  BY <1>8, <2>3, <2>4 DEF Away, Loaded
  <2> QED  BY <1>8, <2>5, AwaySame
<1> QED  BY <1>1, <1>2, <1>3, <1>4, <1>5, <1>6, <1>7, <1>8

\* A step that leaves the threads' places and the producers' counters alone.
LEMMA SameIInv ==
    ASSUME IInv, pc' = pc, loc' = loc, created' = created, tailIndex' = tailIndex,
           UNCHANGED <<headIndex, dequeueOptimisticCount, dequeueOvercommit>>
    PROVE  IInv'
<1>1. Shape' /\ CreatedOK'  BY DEF IInv, Shape, CreatedOK
<1>2. Quiet  BY DEF Quiet, counters, IInv, CountersOK
<1> QED  BY <1>1, <1>2, QuietIInv

\* Every step of enqueue(), of try_dequeue(), of the free list and of a thread that
\* ends keeps the invariant.
LEMMA StepIInv == IInv /\ [QNext]_vars => IInv'
<1> SUFFICES ASSUME IInv, [QNext]_vars PROVE IInv'  OBVIOUS
<1>1. CASE UNCHANGED vars
  BY <1>1, SameIInv DEF vars, threadVars, prodList, counters
<1>2. ASSUME NEW t \in Threads, Enqueue(t) PROVE IInv'
  BY <1>2, BeginEnqueueIInv, BlockIInv, StoreElementIInv DEF Enqueue
<1>3. ASSUME NEW t \in Threads, TryDequeue(t) PROVE IInv'
  <2>1. CheckTail(t) => IInv'  BY TakeIInv, NoElementIInv
  <2> QED  BY <1>3, <2>1, ScoreIInv, LoadOvercommitIInv, CheckIInv, ClaimIInv,
              OvercommitIInv, ReadIInv DEF TryDequeue
<1>4. ASSUME NEW t \in Threads, ThreadExit(t) PROVE IInv'
  BY <1>4, SameIInv DEF ThreadExit, counters
<1>5. ASSUME NEW t \in Threads, FreeListStep(t) PROVE IInv'
  BY <1>5, SameIInv DEF FreeListStep, threadVars, prodList, counters
<1>6. CASE Finished  BY <1>1, <1>6 DEF Finished
<1> QED  BY <1>1, <1>2, <1>3, <1>4, <1>5, <1>6 DEF QNext

\* The counters agree where the invariant holds.
LEMMA IInvCountsAgree == IInv => CountsAgree
<1> SUFFICES ASSUME IInv, NEW p \in 1 .. created
             PROVE  /\ headIndex[p] <= tailIndex[p]
                    /\ dequeueOptimisticCount[p] - dequeueOvercommit[p]
                           = headIndex[p] + Cardinality(Pending(p))
  BY DEF CountsAgree
<1>1. p \in Producers  BY DEF IInv, CreatedOK
<1>2. PICK m \in 0 .. dequeueOptimisticCount[p] : ClaimsFit(p, m)
  BY <1>1 DEF IInv, Fits, FitsAt
<1>3. Cardinality(Below(p, m)) \in Nat  BY PendingFinite
<1>4. headIndex[p] + Cardinality(Below(p, m)) <= tailIndex[p]  BY <1>2 DEF ClaimsFit
<1>5. headIndex[p] <= tailIndex[p]  BY <1>1, <1>3, <1>4 DEF IInv, CountersOK
<1> QED  BY <1>1, <1>5 DEF IInv, Balanced, BalancedAt

\* For any threads, producers, blocks and calls: however many threads claim at
\* once, none is given the index of an element that is not there, although each
\* compares with an overcommit that it loaded before it claimed; and the claims
\* that came to nothing are all made good, so that dequeueOptimisticCount -
\* dequeueOvercommit is what was taken and what is pending.
THEOREM MoodyCountsAgree == QSpec => []CountsAgree
<1>1. QSpec => []IInv  BY InitIInv, StepIInv, PTL DEF QSpec
<1> QED  BY <1>1, IInvCountsAgree, PTL

-----------------------------------------------------------------------------
(***************************************************************************)
(* The free list: its links from the head on.                               *)
(***************************************************************************)
BlockOrNull == Blocks \union {Null}

\* The nodes from head on are f[1] to f[n].
ListIs(f, n, head, next) ==
    /\ n \in Nat /\ f \in [1 .. n -> Blocks]
    /\ \A i, j \in 1 .. n : f[i] = f[j] => i = j
    /\ head = IF n = 0 THEN Null ELSE f[1]
    /\ \A i \in 1 .. n : next[f[i]] = IF i = n THEN Null ELSE f[i + 1]

NodesOf(f, n) == {f[i] : i \in 1 .. n}

\* The steps along the links.
Follows(w, head, next) ==
    w = [k \in 0 .. Cardinality(Blocks) |->
            IF k = 0 THEN head ELSE IF w[k - 1] = Null THEN Null ELSE next[w[k - 1]]]

Followed(head, next) ==
    LET w == CHOOSE w : Follows(w, head, next)
    IN  [nodes |-> {w[k] : k \in 0 .. Cardinality(Blocks)} \ {Null},
         ends  |-> w[Cardinality(Blocks)] = Null]

InList(b) == b \in Linked.nodes

\* Linked is what the steps along the links give, now and after a step.
LEMMA LinkedIs ==
    /\ Linked = Followed(flHead, flNext)
    /\ Linked' = Followed(flHead', flNext')
<1>1. Linked = Followed(flHead, flNext)  BY Zenon DEF Linked, Followed, Follows
<1>2. Linked' = Followed(flHead', flNext')  BY Zenon DEF Linked, Followed, Follows
<1> QED  BY <1>1, <1>2

\* The blocks are numbers, and there are so many.
LEMMA BlocksAre ==
    /\ IsFiniteSet(Blocks) /\ Cardinality(Blocks) \in Nat /\ Null \notin Blocks
    /\ Blocks = 1 .. Cardinality(Blocks)
<1>1. IsFiniteSet(Blocks) /\ Blocks = 1 .. Cardinality(Blocks)  BY BlocksAssumption
<1>2. Cardinality(Blocks) \in Nat  BY <1>1, FS_CardinalityType
<1> QED  BY <1>1, <1>2 DEF Null

\* A list is no longer than there are blocks.
LEMMA ListShort ==
    ASSUME NEW f, NEW n, NEW head, NEW next, ListIs(f, n, head, next)
    PROVE  n <= Cardinality(Blocks)
<1>1. n \in Nat /\ f \in [1 .. n -> Blocks] /\ \A i, j \in 1 .. n : f[i] = f[j] => i = j
  BY DEF ListIs
<1>2. f \in Injection(1 .. n, Blocks)  BY <1>1 DEF Injection, IsInjective
<1>3. Cardinality(1 .. n) <= Cardinality(Blocks)  BY <1>2, BlocksAre, FS_Injection
<1>4. Cardinality(1 .. n) = n
  <2>1. Cardinality(1 .. n) = IF 1 > n THEN 0 ELSE n - 1 + 1  BY <1>1, FS_Interval
  <2> QED  BY <1>1, <2>1
<1> QED  BY <1>3, <1>4

\* The steps along the links of a list come through its nodes and end.
LEMMA FollowedIs ==
    ASSUME NEW f, NEW n, NEW head, NEW next, ListIs(f, n, head, next)
    PROVE  Followed(head, next) = [nodes |-> NodesOf(f, n), ends |-> TRUE]
<1> DEFINE N == Cardinality(Blocks)
           g == [k \in 0 .. N |-> IF k < n THEN f[k + 1] ELSE Null]
           w == CHOOSE x : Follows(x, head, next)
<1>1. /\ n \in Nat /\ f \in [1 .. n -> Blocks]
      /\ head = IF n = 0 THEN Null ELSE f[1]
      /\ \A i \in 1 .. n : next[f[i]] = IF i = n THEN Null ELSE f[i + 1]
  BY DEF ListIs
<1>2. n <= N /\ N \in Nat /\ Null \notin Blocks  BY ListShort, BlocksAre
<1> HIDE DEF N
<1>3. \A k \in 0 .. N : g[k] = IF k = 0 THEN head
                              ELSE IF g[k - 1] = Null THEN Null ELSE next[g[k - 1]]
  <2> SUFFICES ASSUME NEW k \in 0 .. N
               PROVE  g[k] = IF k = 0 THEN head
                             ELSE IF g[k - 1] = Null THEN Null ELSE next[g[k - 1]]
    BY Zenon
  <2>1. CASE k = 0  BY <1>1, <1>2, <2>1
  <2>2. CASE k > 0 /\ k - 1 < n
    <3>1. g[k - 1] = f[k] /\ k \in 1 .. n /\ f[k] \in Blocks  BY <1>1, <1>2, <2>2
    <3>2. next[f[k]] = IF k = n THEN Null ELSE f[k + 1]  BY <1>1, <3>1
    <3>3. g[k] = IF k < n THEN f[k + 1] ELSE Null  OBVIOUS
    <3>4. k < n <=> k # n  BY <1>1, <3>1
    <3> HIDE DEF g
    <3> QED  BY <1>2, <2>2, <3>1, <3>2, <3>3, <3>4
  <2>3. CASE k > 0 /\ ~(k - 1 < n)  BY <1>1, <1>2, <2>3
  <2> QED  BY <1>1, <2>1, <2>2, <2>3
<1>4. Follows(g, head, next)
  <2>1. g = [k \in 0 .. N |-> g[k]]  OBVIOUS
  <2> HIDE DEF g
  <2>2. g = [k \in 0 .. N |-> IF k = 0 THEN head
                            ELSE IF g[k - 1] = Null THEN Null ELSE next[g[k - 1]]]
    BY <1>3, <2>1
  <2> QED  BY <2>2 DEF Follows, N
<1>5. Follows(w, head, next)  BY <1>4, Zenon
<1> HIDE DEF g, w
<1>6. /\ w = [k \in 0 .. N |-> w[k]]
      /\ \A k \in 0 .. N : w[k] = IF k = 0 THEN head
                              ELSE IF w[k - 1] = Null THEN Null ELSE next[w[k - 1]]
  <2>1. w = [k \in 0 .. N |-> IF k = 0 THEN head
                            ELSE IF w[k - 1] = Null THEN Null ELSE next[w[k - 1]]]
    BY <1>5 DEF Follows, N
  <2> QED  BY <2>1
<1>7. \A k \in 0 .. N : w[k] = g[k]
  <2> DEFINE T == {k \in 0 .. N : w[k] = g[k]}
  <2>1. 0 \in T  BY <1>2, <1>3, <1>6
  <2>2. ASSUME NEW k \in 0 .. N - 1, k \in T PROVE k + 1 \in T
    <3>1. k + 1 \in 0 .. N /\ k + 1 # 0 /\ (k + 1) - 1 = k  BY <1>2
    <3>2. w[k + 1] = IF w[k] = Null THEN Null ELSE next[w[k]]  BY <1>6, <3>1, Zenon
    <3>3. g[k + 1] = IF g[k] = Null THEN Null ELSE next[g[k]]  BY <1>3, <3>1, Zenon
    <3>4. w[k] = g[k]  BY <2>2
    <3> QED  BY <3>1, <3>2, <3>3, <3>4
  <2> HIDE DEF T
  <2>3. \A k \in 0 .. N : k \in T  BY <1>2, <2>1, <2>2, UpTo
  <2> QED  BY <2>3 DEF T
<1>8. {w[k] : k \in 0 .. N} \ {Null} = {f[i] : i \in 1 .. n}
  <2>1. \A k \in 0 .. N : w[k] = IF k < n THEN f[k + 1] ELSE Null  BY <1>7 DEF g
  <2>2. ASSUME NEW k \in 0 .. N, w[k] # Null PROVE w[k] \in {f[i] : i \in 1 .. n}
    <3>1. k < n /\ w[k] = f[k + 1]  BY <2>1, <2>2
    <3>2. k + 1 \in 1 .. n  BY <1>1, <1>2, <3>1
    <3> QED  BY <3>1, <3>2
  <2>3. ASSUME NEW i \in 1 .. n PROVE f[i] # Null /\ \E k \in 0 .. N : f[i] = w[k]
    <3>1. i - 1 \in 0 .. N /\ i - 1 < n /\ (i - 1) + 1 = i  BY <1>1, <1>2
    <3>2. w[i - 1] = f[i]  BY <2>1, <3>1
    <3> QED  BY <1>1, <1>2, <3>1, <3>2
  <2> QED  BY <2>2, <2>3
<1>9. w[N] = Null  BY <1>1, <1>2, <1>7 DEF g
<1>10. Followed(head, next) = [nodes |-> {w[k] : k \in 0 .. N} \ {Null}, ends |-> w[N] = Null]
  BY Zenon DEF Followed, w, N
<1> QED  BY <1>8, <1>9, <1>10 DEF NodesOf

\* The first node is taken off.
LEMMA ListPops ==
    ASSUME NEW f, NEW n, NEW head, NEW next, ListIs(f, n, head, next), head # Null
    PROVE  \E g : ListIs(g, n - 1, next[head], next)
                  /\ NodesOf(g, n - 1) = NodesOf(f, n) \ {head}
<1> DEFINE g == [i \in 1 .. n - 1 |-> f[i + 1]]
<1>1. /\ n \in Nat /\ f \in [1 .. n -> Blocks]
      /\ \A i, j \in 1 .. n : f[i] = f[j] => i = j
      /\ head = IF n = 0 THEN Null ELSE f[1]
      /\ \A i \in 1 .. n : next[f[i]] = IF i = n THEN Null ELSE f[i + 1]
  BY DEF ListIs
<1>2. n # 0 /\ head = f[1] /\ n - 1 \in Nat /\ 1 \in 1 .. n  BY <1>1
<1>3. \A i \in 1 .. n - 1 : i \in 1 .. n /\ i + 1 \in 1 .. n /\ g[i] = f[i + 1]
  BY <1>1
<1>4. g \in [1 .. n - 1 -> Blocks] /\ \A i, j \in 1 .. n - 1 : g[i] = g[j] => i = j
  BY <1>1, <1>3
<1>5. next[head] = IF n - 1 = 0 THEN Null ELSE g[1]
  <2>1. CASE n = 1  BY <1>1, <1>2, <2>1
  <2>2. CASE n # 1
    <3>1. 1 \in 1 .. n - 1 /\ n - 1 # 0  BY <1>1, <1>2, <2>2
    <3>2. g[1] = f[2] /\ next[f[1]] = f[2]  BY <1>1, <1>2, <2>2, <3>1
    <3> QED  BY <1>2, <3>1, <3>2
  <2> QED  BY <2>1, <2>2
<1>6. ASSUME NEW i \in 1 .. n - 1 PROVE next[g[i]] = IF i = n - 1 THEN Null ELSE g[i + 1]
  <2>1. i + 1 \in 1 .. n /\ g[i] = f[i + 1]  BY <1>3
  <2>2. next[f[i + 1]] = IF i + 1 = n THEN Null ELSE f[i + 1 + 1]  BY <1>1, <2>1
  <2>3. CASE i = n - 1  BY <1>1, <2>1, <2>2, <2>3
  <2>4. CASE i # n - 1
    <3>1. i + 1 \in 1 .. n - 1 /\ i + 1 # n  BY <1>1, <2>4
    <3> QED  BY <2>1, <2>2, <2>4, <3>1
  <2> QED  BY <2>3, <2>4
<1>7. ListIs(g, n - 1, next[head], next)
  <2> HIDE DEF g
  <2> QED  BY <1>2, <1>4, <1>5, <1>6 DEF ListIs
<1>8. {g[i] : i \in 1 .. n - 1} = {f[i] : i \in 1 .. n} \ {head}
  <2>1. ASSUME NEW i \in 1 .. n - 1 PROVE g[i] \in {f[j] : j \in 1 .. n} \ {head}
    <3>1. i + 1 \in 1 .. n /\ g[i] = f[i + 1] /\ i + 1 # 1  BY <1>3
    <3> QED  BY <1>1, <1>2, <3>1
  <2>2. ASSUME NEW i \in 1 .. n, f[i] # head PROVE f[i] \in {g[j] : j \in 1 .. n - 1}
    <3>1. i - 1 \in 1 .. n - 1 /\ (i - 1) + 1 = i  BY <1>1, <1>2, <2>2
    <3>2. g[i - 1] = f[i]  BY <1>3, <3>1
    <3> QED  BY <3>1, <3>2
  <2> QED  BY <2>1, <2>2
<1> QED  BY <1>7, <1>8 DEF NodesOf

\* A node whose link is to the head is put in front.
LEMMA ListPushes ==
    ASSUME NEW f, NEW n, NEW head, NEW next, ListIs(f, n, head, next),
           NEW b \in Blocks, next[b] = head, b \notin NodesOf(f, n)
    PROVE  \E g : ListIs(g, n + 1, b, next)
                  /\ NodesOf(g, n + 1) = NodesOf(f, n) \union {b}
<1> DEFINE g == [i \in 1 .. n + 1 |-> IF i = 1 THEN b ELSE f[i - 1]]
<1>1. /\ n \in Nat /\ f \in [1 .. n -> Blocks]
      /\ \A i, j \in 1 .. n : f[i] = f[j] => i = j
      /\ head = IF n = 0 THEN Null ELSE f[1]
      /\ \A i \in 1 .. n : next[f[i]] = IF i = n THEN Null ELSE f[i + 1]
  BY DEF ListIs
<1>2. \A i \in 1 .. n : i + 1 \in 1 .. n + 1 /\ i + 1 # 1 /\ g[i + 1] = f[i] /\ f[i] # b
  BY <1>1 DEF NodesOf
<1>3. g[1] = b /\ 1 \in 1 .. n + 1 /\ n + 1 \in Nat  BY <1>1
<1>4. \A i \in 1 .. n + 1 : i = 1 \/ (i - 1 \in 1 .. n /\ i = (i - 1) + 1 /\ g[i] = f[i - 1])
  BY <1>1
<1>5. g \in [1 .. n + 1 -> Blocks]  BY <1>1, <1>4
<1>6. \A i, j \in 1 .. n + 1 : g[i] = g[j] => i = j
  <2> HIDE DEF g
  <2> QED  BY <1>1, <1>2, <1>3, <1>4
<1>7. ASSUME NEW i \in 1 .. n + 1 PROVE next[g[i]] = IF i = n + 1 THEN Null ELSE g[i + 1]
  <2>1. CASE i = 1
    <3>1. CASE n = 0  BY <1>1, <1>3, <2>1, <3>1
    <3>2. CASE n # 0
      <4>1. 1 \in 1 .. n /\ i # n + 1  BY <1>1, <2>1, <3>2
      <4>2. g[2] = f[1]  BY <1>2, <4>1
      <4> QED  BY <1>1, <1>3, <2>1, <3>2, <4>1, <4>2
    <3> QED  BY <3>1, <3>2
  <2>2. CASE i # 1
    <3>1. i - 1 \in 1 .. n /\ g[i] = f[i - 1]  BY <1>4, <2>2
    <3>2. next[f[i - 1]] = IF i - 1 = n THEN Null ELSE f[(i - 1) + 1]  BY <1>1, <3>1
    <3>3. CASE i = n + 1  BY <1>1, <3>1, <3>2, <3>3
    <3>4. CASE i # n + 1
      <4>1. i \in 1 .. n /\ i - 1 # n /\ (i - 1) + 1 = i  BY <1>1, <3>1, <3>4
      <4>2. g[i + 1] = f[i]  BY <1>2, <4>1
      <4> QED  BY <3>1, <3>2, <3>4, <4>1, <4>2
    <3> QED  BY <3>3, <3>4
  <2> QED  BY <2>1, <2>2
<1>8. ListIs(g, n + 1, b, next)
  <2>1. b = IF n + 1 = 0 THEN Null ELSE g[1]  BY <1>1, <1>3
  <2> HIDE DEF g
  <2> QED  BY <1>3, <1>5, <1>6, <1>7, <2>1 DEF ListIs
<1>9. {g[i] : i \in 1 .. n + 1} = {f[i] : i \in 1 .. n} \union {b}
  <2> HIDE DEF g
  <2>1. ASSUME NEW i \in 1 .. n + 1 PROVE g[i] \in {f[j] : j \in 1 .. n} \union {b}
    BY <1>3, <1>4
  <2>2. ASSUME NEW i \in 1 .. n PROVE f[i] \in {g[j] : j \in 1 .. n + 1}  BY <1>2
  <2>3. b \in {g[j] : j \in 1 .. n + 1}  BY <1>3
  <2> QED  BY <2>1, <2>2, <2>3
<1> QED  BY <1>8, <1>9 DEF NodesOf

\* A link of a block that is not on the list is written.
LEMMA ListStays ==
    ASSUME NEW f, NEW n, NEW head, NEW next, ListIs(f, n, head, next),
           NEW other, \A i \in 1 .. n : other[f[i]] = next[f[i]]
    PROVE  ListIs(f, n, head, other)
BY DEF ListIs

ListOK == \E n \in Nat : \E f : ListIs(f, n, flHead, flNext)

\* What is on the list.
LEMMA ListGives ==
    ASSUME NEW f, NEW n
    PROVE  /\ ListIs(f, n, flHead, flNext) =>
                 /\ Linked.ends
                 /\ \A b : InList(b) <=> b \in NodesOf(f, n)
           /\ ListIs(f, n, flHead', flNext') =>
                 \A b : InList(b)' <=> b \in NodesOf(f, n)
<1> DEFINE s == NodesOf(f, n)
<1>1. ASSUME ListIs(f, n, flHead, flNext)
      PROVE  Linked = [nodes |-> s, ends |-> TRUE]
  BY <1>1, FollowedIs, LinkedIs
<1>2. ASSUME ListIs(f, n, flHead', flNext')
      PROVE  Linked' = [nodes |-> s, ends |-> TRUE]
  BY <1>2, FollowedIs, LinkedIs
<1> HIDE DEF s
<1>3. ASSUME ListIs(f, n, flHead, flNext)
      PROVE  Linked.ends /\ \A b : InList(b) <=> b \in s
  BY <1>1, <1>3 DEF InList
<1>4. ASSUME ListIs(f, n, flHead', flNext')
      PROVE  \A b : InList(b)' <=> b \in s
  BY <1>2, <1>4 DEF InList
<1> QED  BY <1>3, <1>4 DEF s

\* The links end, and what is on the list is a block.
LEMMA ListEnds ==
    ASSUME ListOK
    PROVE  /\ Linked.ends /\ \A b : InList(b) => b \in Blocks
           /\ flHead # Null => InList(flHead)
<1>1. PICK n, f : n \in Nat /\ ListIs(f, n, flHead, flNext)  BY DEF ListOK
<1>2. Linked.ends /\ \A b : InList(b) <=> b \in NodesOf(f, n)  BY <1>1, ListGives
<1>3. f \in [1 .. n -> Blocks] /\ flHead = IF n = 0 THEN Null ELSE f[1]
  BY <1>1 DEF ListIs
<1>3a. \A b \in NodesOf(f, n) : b \in Blocks  BY <1>3 DEF NodesOf
<1>4. flHead # Null => InList(flHead)
  <2> SUFFICES ASSUME flHead # Null PROVE InList(flHead)  OBVIOUS
  <2>1. flHead = f[1] /\ 1 \in 1 .. n  BY <1>1, <1>3
  <2>2. f[1] \in NodesOf(f, n)  BY <2>1 DEF NodesOf
  <2> QED  BY <1>2, <2>1, <2>2
<1> QED  BY <1>2, <1>3a, <1>4

\* The head is taken off.
LEMMA HeadPops ==
    ASSUME ListOK, flHead # Null, flHead' = flNext[flHead], flNext' = flNext
    PROVE  ListOK' /\ \A b : InList(b)' <=> InList(b) /\ b # flHead
<1>1. PICK n, f : n \in Nat /\ ListIs(f, n, flHead, flNext)  BY DEF ListOK
<1>2. PICK g : ListIs(g, n - 1, flHead', flNext')
               /\ NodesOf(g, n - 1) = NodesOf(f, n) \ {flHead}
  BY <1>1, ListPops
<1>3. n - 1 \in Nat  BY <1>2 DEF ListIs
<1>4. /\ \A b : InList(b) <=> b \in NodesOf(f, n)
      /\ \A b : InList(b)' <=> b \in NodesOf(g, n - 1)
  BY <1>1, <1>2, ListGives
<1>5. ListOK'  BY <1>2, <1>3 DEF ListOK
<1> QED  BY <1>2, <1>4, <1>5

\* A block is put in front.
LEMMA HeadPushes ==
    ASSUME ListOK, NEW b \in Blocks, ~InList(b), flNext[b] = flHead,
           flHead' = b, flNext' = flNext
    PROVE  ListOK' /\ \A x : InList(x)' <=> InList(x) \/ x = b
<1>1. PICK n, f : n \in Nat /\ ListIs(f, n, flHead, flNext)  BY DEF ListOK
<1>2. \A x : InList(x) <=> x \in NodesOf(f, n)  BY <1>1, ListGives
<1>3. PICK g : ListIs(g, n + 1, b, flNext)
               /\ NodesOf(g, n + 1) = NodesOf(f, n) \union {b}
  BY <1>1, <1>2, ListPushes
<1>4. \A x : InList(x)' <=> x \in NodesOf(g, n + 1)  BY <1>3, ListGives
<1>5. ListOK'
  <2>1. n + 1 \in Nat  BY <1>1
  <2> QED  BY <1>3, <2>1 DEF ListOK
<1> QED  BY <1>2, <1>3, <1>4, <1>5

\* The head and the links of the list stay.
LEMMA HeadStays ==
    ASSUME ListOK, flHead' = flHead, \A b : InList(b) => flNext'[b] = flNext[b]
    PROVE  ListOK' /\ \A b : InList(b)' <=> InList(b)
<1>1. PICK n, f : n \in Nat /\ ListIs(f, n, flHead, flNext)  BY DEF ListOK
<1>2. \A b : InList(b) <=> b \in NodesOf(f, n)  BY <1>1, ListGives
<1>3. \A i \in 1 .. n : flNext'[f[i]] = flNext[f[i]]  BY <1>2 DEF NodesOf
<1>4. ListIs(f, n, flHead', flNext')  BY <1>1, <1>3, ListStays
<1>5. \A b : InList(b)' <=> b \in NodesOf(f, n)  BY <1>4, ListGives
<1>6. ListOK'
  <2>1. n \in Nat  BY <1>1
  <2> QED  BY <1>4, <2>1 DEF ListOK
<1> QED  BY <1>2, <1>5, <1>6

-----------------------------------------------------------------------------
(***************************************************************************)
(* The references and the calls of the free list.                           *)
(***************************************************************************)
\* The places where a call refers to a block by its head, and by its node.
HeadPlaces == {"ref", "next", "cas", "take", "got"}
NodePlaces == {"drop", "add", "link", "refs", "push", "unlink"}

Call ==
    [at : HeadPlaces \union NodePlaces \union {"none", "load", "null"},
     head : BlockOrNull, next : BlockOrNull, node : BlockOrNull, then : {"none", "retry"}]

CallOK(c) ==
    /\ c \in Call
    /\ c.at \in HeadPlaces => c.head \in Blocks
    /\ c.at \in NodePlaces => c.node \in Blocks

FLTypeOK ==
    /\ flHead \in BlockOrNull /\ flRefs \in [Blocks -> Nat] /\ flShould \in SUBSET Blocks
    /\ flNext \in [Blocks -> BlockOrNull]
    /\ DOMAIN fl = Threads /\ fl = [t \in Threads |-> fl[t]]
    /\ \A t \in Threads : CallOK(fl[t])

\* A call has taken the block b off the list, or is to put it there.
Holds(c, b) ==
    \/ c.at \in {"take", "got"} /\ c.head = b
    \/ c.at \in {"add", "link", "refs", "push", "unlink"} /\ c.node = b

\* The references that a call has to the block b.
Weight(c, b) ==
    IF c.at \in {"next", "cas"} /\ c.head = b THEN 1
    ELSE IF c.at = "take" /\ c.head = b THEN 2
    ELSE IF c.at \in {"drop", "push", "unlink"} /\ c.node = b THEN 1 ELSE 0

RefsOK == \A b \in Blocks : flRefs[b] = References(b, InList(b))

\* A call is about to link the block b, with no reference to it left.
Links(c, b) == c.at \in {"link", "refs"} /\ c.node = b

\* A block is on the list, with one call, or left to who drops its last reference.
Apart ==
    /\ \A b \in Blocks, t, u \in Threads : Holds(fl[t], b) /\ Holds(fl[u], b) => t = u
    /\ \A b \in Blocks, t \in Threads : Holds(fl[t], b) => ~InList(b)
    /\ \A b \in flShould : ~InList(b)
    /\ \A b \in flShould, t \in Threads : Holds(fl[t], b) => Links(fl[t], b)
    /\ \A b \in Blocks, t \in Threads : Links(fl[t], b) => flRefs[b] = 0 /\ b \in flShould

\* The link that a call has read or written is still there.
LinkOK(c, next) ==
    /\ c.at = "cas"  => c.next = next[c.head]
    /\ c.at = "push" => c.next = next[c.node]

LinksOK == \A t \in Threads : LinkOK(fl[t], flNext)

FLInv == FLTypeOK /\ ListOK /\ RefsOK /\ Apart /\ LinksOK

\* The block is the free list's, or one of its calls'.
Inside(b) == InList(b) \/ (\E t \in Threads : Holds(fl[t], b)) \/ b \in flShould

\* A set of threads that changes at t only.
LEMMA CountMoves ==
    ASSUME NEW t \in Threads, NEW S \in SUBSET Threads, NEW R \in SUBSET Threads,
           \A u \in Threads \ {t} : u \in S <=> u \in R
    PROVE  /\ Cardinality(S) \in Nat /\ Cardinality(R) \in Nat
           /\ Cardinality(R) = Cardinality(S) + Count(t \in R) - Count(t \in S)
<1>1. IsFiniteSet(S) /\ IsFiniteSet(R)  BY ThreadsAssumption, FS_Subset
<1>2. Cardinality(S) \in Nat /\ Cardinality(R) \in Nat  BY <1>1, FS_CardinalityType
<1>3. CASE t \in R /\ t \notin S
  <2>1. R = S \union {t}  BY <1>3
  <2>2. Cardinality(R) = Cardinality(S) + 1  BY <1>1, <1>3, <2>1, FS_AddElement
  <2> QED  BY <1>2, <1>3, <2>2 DEF Count
<1>4. CASE t \notin R /\ t \in S
  <2>1. S = R \union {t}  BY <1>4
  <2>2. Cardinality(S) = Cardinality(R) + 1  BY <1>1, <1>4, <2>1, FS_AddElement
  <2> QED  BY <1>2, <1>4, <2>2 DEF Count
<1>5. CASE t \in R <=> t \in S
  <2>1. R = S  BY <1>5
  <2> QED  BY <1>2, <1>5, <2>1 DEF Count
<1> QED  BY <1>2, <1>3, <1>4, <1>5

\* The threads with one reference in try_get(), with two, and with one in add().
Once(b)   == {t \in Threads : fl[t].at \in {"next", "cas"} /\ fl[t].head = b}
Twice(b)  == {t \in Threads : fl[t].at \in {"take"} /\ fl[t].head = b}
Adding(b) == {t \in Threads : fl[t].at \in {"drop", "push", "unlink"} /\ fl[t].node = b}

\* The references of the threads.
Held(b) == Cardinality(Once(b)) + 2 * Cardinality(Twice(b)) + Cardinality(Adding(b))

\* Sets of threads can be counted.
LEMMA HeldIsNat ==
    ASSUME NEW b
    PROVE  /\ Cardinality(Once(b)) \in Nat /\ Cardinality(Twice(b)) \in Nat
           /\ Cardinality(Adding(b)) \in Nat /\ Held(b) \in Nat
<1>1. \A T \in SUBSET Threads : Cardinality(T) \in Nat
  BY ThreadsAssumption, FS_Subset, FS_CardinalityType
<1>2. Once(b) \in SUBSET Threads /\ Twice(b) \in SUBSET Threads /\ Adding(b) \in SUBSET Threads
  BY DEF Once, Twice, Adding
<1>3. /\ Cardinality(Once(b)) \in Nat /\ Cardinality(Twice(b)) \in Nat
      /\ Cardinality(Adding(b)) \in Nat
  BY <1>1, <1>2
<1>4. \A i, j, k \in Nat : i + 2 * j + k \in Nat  OBVIOUS
<1> QED  BY <1>3, <1>4 DEF Held

\* The reference of the list is one more.
LEMMA ReferencesAre == \A b : References(b, InList(b)) = Held(b) + Count(InList(b))
<1> SUFFICES ASSUME NEW b PROVE References(b, InList(b)) = Held(b) + Count(InList(b))
  OBVIOUS
<1>1. /\ {u \in {v \in Threads : fl[v].at \in {"next", "cas"}} : fl[u].head = b} = Once(b)
      /\ {u \in {v \in Threads : fl[v].at \in {"take"}} : fl[u].head = b} = Twice(b)
      /\ {u \in {v \in Threads : fl[v].at \in {"drop", "push", "unlink"}} : fl[u].node = b}
            = Adding(b)
  BY DEF Once, Twice, Adding
<1>2. References(b, InList(b)) = Count(InList(b)) + Cardinality(Once(b))
                                     + 2 * Cardinality(Twice(b)) + Cardinality(Adding(b))
  BY <1>1 DEF References
<1>3. Count(InList(b)) \in Nat  BY DEF Count
<1>4. \A i, j, k, n \in Nat : n + i + 2 * j + k = (i + 2 * j + k) + n  OBVIOUS
<1>5. References(b, InList(b)) = Held(b) + Count(InList(b))
  BY <1>2, <1>3, <1>4, HeldIsNat DEF Held
<1> QED  BY <1>5

\* So it is after a step.
LEMMA ReferencesWillBe == (\A b : References(b, InList(b)) = Held(b) + Count(InList(b)))'
BY ReferencesAre, PTL

\* The references of the threads change by those of the call that changes.
LEMMA HeldMoves ==
    ASSUME DOMAIN fl = Threads, NEW t \in Threads, NEW c, fl' = [fl EXCEPT ![t] = c], NEW b
    PROVE  Held(b)' = Held(b) + Weight(c, b) - Weight(fl[t], b)
<1>1. fl'[t] = c /\ \A u \in Threads \ {t} : fl'[u] = fl[u]  OBVIOUS
<1>2. /\ Once(b) \in SUBSET Threads /\ Once(b)' \in SUBSET Threads
      /\ \A u \in Threads \ {t} : u \in Once(b) <=> u \in Once(b)'
      /\ Twice(b) \in SUBSET Threads /\ Twice(b)' \in SUBSET Threads
      /\ \A u \in Threads \ {t} : u \in Twice(b) <=> u \in Twice(b)'
      /\ Adding(b) \in SUBSET Threads /\ Adding(b)' \in SUBSET Threads
      /\ \A u \in Threads \ {t} : u \in Adding(b) <=> u \in Adding(b)'
  BY <1>1 DEF Once, Twice, Adding
<1>3. /\ Weight(fl[t], b)
            = Count(t \in Once(b)) + 2 * Count(t \in Twice(b)) + Count(t \in Adding(b))
      /\ Weight(c, b)
            = Count(t \in Once(b)') + 2 * Count(t \in Twice(b)') + Count(t \in Adding(b)')
  BY <1>1 DEF Weight, Count, Once, Twice, Adding
<1>4. /\ Cardinality(Once(b)) \in Nat /\ Cardinality(Once(b)') \in Nat
      /\ Cardinality(Once(b)') = Cardinality(Once(b)) + Count(t \in Once(b)') - Count(t \in Once(b))
  BY <1>2, CountMoves
<1>5. /\ Cardinality(Twice(b)) \in Nat /\ Cardinality(Twice(b)') \in Nat
      /\ Cardinality(Twice(b)')
            = Cardinality(Twice(b)) + Count(t \in Twice(b)') - Count(t \in Twice(b))
  BY <1>2, CountMoves
<1>6. /\ Cardinality(Adding(b)) \in Nat /\ Cardinality(Adding(b)') \in Nat
      /\ Cardinality(Adding(b)')
            = Cardinality(Adding(b)) + Count(t \in Adding(b)') - Count(t \in Adding(b))
  BY <1>2, CountMoves
<1>7. /\ Count(t \in Once(b)) \in Nat /\ Count(t \in Once(b)') \in Nat
      /\ Count(t \in Twice(b)) \in Nat /\ Count(t \in Twice(b)') \in Nat
      /\ Count(t \in Adding(b)) \in Nat /\ Count(t \in Adding(b)') \in Nat
  BY DEF Count
<1>8. Held(b) = Cardinality(Once(b)) + 2 * Cardinality(Twice(b)) + Cardinality(Adding(b))
  BY DEF Held
<1>9. Held(b)' = Cardinality(Once(b)') + 2 * Cardinality(Twice(b)') + Cardinality(Adding(b)')
  BY DEF Held
<1>10. \A i, j, k, di, dj, dk, ei, ej, ek \in Nat :
          (i + ei - di) + 2 * (j + ej - dj) + (k + ek - dk)
              = (i + 2 * j + k) + (ei + 2 * ej + ek) - (di + 2 * dj + dk)
  OBVIOUS
<1> QED  BY <1>3, <1>4, <1>5, <1>6, <1>7, <1>8, <1>9, <1>10

\* A call that has references to a block is counted.
LEMMA WeightCounts ==
    ASSUME FLInv, NEW t \in Threads, NEW b \in Blocks
    PROVE  /\ flRefs[b] \in Nat /\ Weight(fl[t], b) \in Nat /\ Count(InList(b)) \in Nat
           /\ Weight(fl[t], b) + Count(InList(b)) <= flRefs[b]
<1>1. flRefs[b] = Held(b) + Count(InList(b)) /\ flRefs[b] \in Nat
  BY ReferencesAre DEF FLInv, RefsOK, FLTypeOK
<1>2. Weight(fl[t], b)
            = Count(t \in Once(b)) + 2 * Count(t \in Twice(b)) + Count(t \in Adding(b))
  BY DEF Weight, Count, Once, Twice, Adding
<1>3. \A S \in SUBSET Threads : Cardinality(S) \in Nat /\ Count(t \in S) <= Cardinality(S)
  <2> SUFFICES ASSUME NEW S \in SUBSET Threads
               PROVE  Cardinality(S) \in Nat /\ Count(t \in S) <= Cardinality(S)
    OBVIOUS
  <2>1. IsFiniteSet(S) /\ Cardinality(S) \in Nat
    BY ThreadsAssumption, FS_Subset, FS_CardinalityType
  <2>2. t \in S => Cardinality(S) # 0  BY <2>1, FS_EmptySet
  <2> QED  BY <2>1, <2>2 DEF Count
<1>4. Once(b) \in SUBSET Threads /\ Twice(b) \in SUBSET Threads /\ Adding(b) \in SUBSET Threads
  BY DEF Once, Twice, Adding
<1>5. Count(InList(b)) \in Nat /\ \A S : Count(t \in S) \in Nat  BY DEF Count
<1>6. /\ Cardinality(Once(b)) \in Nat /\ Cardinality(Twice(b)) \in Nat
      /\ Cardinality(Adding(b)) \in Nat /\ Count(t \in Once(b)) \in Nat
      /\ Count(t \in Twice(b)) \in Nat /\ Count(t \in Adding(b)) \in Nat
      /\ Count(t \in Once(b)) <= Cardinality(Once(b))
      /\ Count(t \in Twice(b)) <= Cardinality(Twice(b))
      /\ Count(t \in Adding(b)) <= Cardinality(Adding(b))
  BY <1>3, <1>4, <1>5
<1>7. Held(b) = Cardinality(Once(b)) + 2 * Cardinality(Twice(b)) + Cardinality(Adding(b))
  BY DEF Held
<1>8. \A i, j, k, di, dj, dk \in Nat : di <= i /\ dj <= j /\ dk <= k =>
          di + 2 * dj + dk \in Nat /\ di + 2 * dj + dk <= i + 2 * j + k
  OBVIOUS
<1>9. Weight(fl[t], b) \in Nat /\ Weight(fl[t], b) <= Held(b)
  BY <1>2, <1>6, <1>7, <1>8
<1>10. Held(b) \in Nat  BY HeldIsNat
<1>11. Count(InList(b)) \in Nat  BY <1>5
<1>12. \A w, h, n, r \in Nat : w <= h /\ r = h + n => w + n <= r  OBVIOUS
<1>13. Weight(fl[t], b) + Count(InList(b)) <= flRefs[b]
  BY <1>1, <1>9, <1>10, <1>11, <1>12
<1> QED  BY <1>1, <1>9, <1>11, <1>13

-----------------------------------------------------------------------------
(***************************************************************************)
(* A step of one call.                                                      *)
(***************************************************************************)
\* What a step from the call c to the call d may do to the block b.
BlockMoves(c, d, b) ==
    /\ flRefs'[b] = flRefs[b] + Weight(d, b) - Weight(c, b) + Count(InList(b)') - Count(InList(b))
    /\ Holds(d, b) => ~InList(b)' /\ (Holds(c, b) \/ \A u \in Threads : ~Holds(fl[u], b))
    /\ InList(b)' => InList(b) \/ Holds(c, b)
    /\ b \in flShould' => /\ ~InList(b)' /\ (b \in flShould \/ Holds(c, b))
                          /\ Holds(d, b) => Links(d, b)
    /\ b \in flShould /\ flRefs[b] = 0 /\ ~Holds(c, b) => flRefs'[b] = 0 /\ b \in flShould'
    /\ Links(d, b) => flRefs'[b] = 0 /\ b \in flShould'
    /\ flNext'[b] # flNext[b] => Holds(c, b) /\ flRefs[b] = 0

FieldsOK ==
    /\ flHead' \in BlockOrNull /\ flRefs' \in [Blocks -> Nat] /\ flShould' \in SUBSET Blocks
    /\ flNext' \in [Blocks -> BlockOrNull]

\* A call that links a block holds it.
LEMMA LinksHold ==
    ASSUME NEW c, NEW b, Links(c, b) PROVE Holds(c, b)
BY DEF Links, Holds

\* A step that does no more keeps the invariant.
LEMMA MovesFLInv ==
    ASSUME FLInv, NEW t \in Threads, NEW c, fl' = [fl EXCEPT ![t] = c], CallOK(c), FieldsOK,
           ListOK', LinkOK(c, flNext'), \A b \in Blocks : BlockMoves(fl[t], c, b)
    PROVE  FLInv'
<1>1. /\ DOMAIN fl = Threads /\ fl'[t] = c /\ \A u \in Threads : u # t => fl'[u] = fl[u]
  BY DEF FLInv, FLTypeOK
<1>2. FLTypeOK'
  <2>1. DOMAIN fl' = Threads /\ fl' = [u \in Threads |-> fl'[u]]  BY <1>1
  <2> QED  BY <1>1, <2>1 DEF FLInv, FLTypeOK, FieldsOK
<1>3. RefsOK'
  <2> SUFFICES ASSUME NEW b \in Blocks PROVE flRefs'[b] = References(b, InList(b))'
    BY DEF RefsOK
  <2>1. flRefs[b] = References(b, InList(b))  BY DEF FLInv, RefsOK
  <2>2. Held(b)' = Held(b) + Weight(c, b) - Weight(fl[t], b)  BY <1>1, HeldMoves
  <2>3. /\ References(b, InList(b)) = Held(b) + Count(InList(b))
        /\ References(b, InList(b))' = Held(b)' + Count(InList(b)')
        /\ Held(b) \in Nat
    BY ReferencesAre, ReferencesWillBe, HeldIsNat
  <2>4. Count(InList(b)) \in Nat /\ Count(InList(b)') \in Nat
        /\ Weight(c, b) \in Nat /\ Weight(fl[t], b) \in Nat
    BY DEF Count, Weight
  <2>5. flRefs'[b] = flRefs[b] + Weight(c, b) - Weight(fl[t], b)
                              + Count(InList(b)') - Count(InList(b))
    BY DEF BlockMoves
  <2> QED  BY <2>1, <2>2, <2>3, <2>4, <2>5
<1>4. /\ \A b \in Blocks, u, v \in Threads : Holds(fl[u], b) /\ Holds(fl[v], b) => u = v
      /\ \A b \in Blocks, u \in Threads : Holds(fl[u], b) => ~InList(b)
      /\ \A b \in flShould : ~InList(b)
      /\ \A b \in flShould, u \in Threads : Holds(fl[u], b) => Links(fl[u], b)
      /\ \A b \in Blocks, u \in Threads : Links(fl[u], b) => flRefs[b] = 0 /\ b \in flShould
  BY DEF FLInv, Apart
<1>5. \A b \in Blocks, u \in Threads : u # t /\ Holds(fl[u], b) => ~Holds(fl[t], b) /\ ~Holds(c, b)
  BY <1>4 DEF BlockMoves
<1>6. ASSUME NEW b \in Blocks, NEW u \in Threads, NEW v \in Threads, Holds(fl'[u], b),
             Holds(fl'[v], b)
      PROVE  u = v
  BY <1>1, <1>4, <1>5, <1>6
<1>7. ASSUME NEW b \in Blocks, NEW u \in Threads, Holds(fl'[u], b) PROVE ~InList(b)'
  <2>1. CASE u = t  BY <1>1, <1>7, <2>1 DEF BlockMoves
  <2>2. CASE u # t  BY <1>1, <1>4, <1>5, <1>7, <2>2 DEF BlockMoves
  <2> QED  BY <2>1, <2>2
<1>8. \A b \in flShould' : ~InList(b)'  BY DEF BlockMoves, FieldsOK
<1>9. ASSUME NEW b \in flShould', NEW u \in Threads, Holds(fl'[u], b) PROVE Links(fl'[u], b)
  <2>1. b \in Blocks  BY DEF FieldsOK
  <2>2. CASE u = t  BY <1>1, <1>9, <2>1, <2>2 DEF BlockMoves
  <2>3. CASE u # t
    <3>1. Holds(fl[u], b) /\ ~Holds(fl[t], b)  BY <1>1, <1>5, <1>9, <2>1, <2>3
    <3>2. b \in flShould  BY <2>1, <3>1 DEF BlockMoves
    <3> QED  BY <1>1, <1>4, <2>3, <3>1, <3>2
  <2> QED  BY <2>2, <2>3
<1>10. ASSUME NEW b \in Blocks, NEW u \in Threads, Links(fl'[u], b)
       PROVE  flRefs'[b] = 0 /\ b \in flShould'
  <2>1. CASE u = t  BY <1>1, <1>10, <2>1 DEF BlockMoves
  <2>2. CASE u # t
    <3>1. Links(fl[u], b)  BY <1>1, <1>10, <2>2
    <3>2. Holds(fl[u], b)  BY <3>1, LinksHold
    <3>3. ~Holds(fl[t], b) /\ b \in flShould /\ flRefs[b] = 0
      BY <1>4, <1>5, <2>2, <3>1, <3>2
    <3> QED  BY <3>3 DEF BlockMoves
  <2> QED  BY <2>1, <2>2
<1>11. Apart'  BY <1>6, <1>7, <1>8, <1>9, <1>10 DEF Apart
<1>12. ASSUME NEW u \in Threads PROVE LinkOK(fl'[u], flNext')
  <2>1. CASE u = t  BY <1>1, <2>1
  <2>2. CASE u # t
    <3>1. fl'[u] = fl[u] /\ LinkOK(fl[u], flNext) /\ CallOK(fl[u])
      BY <1>1, <2>2 DEF FLInv, LinksOK, FLTypeOK
    <3>2. ASSUME fl[u].at = "cas" PROVE flNext'[fl[u].head] = flNext[fl[u].head]
      <4>1. fl[u].head \in Blocks  BY <3>1, <3>2 DEF CallOK, HeadPlaces
      <4>2. Weight(fl[u], fl[u].head) = 1  BY <3>2 DEF Weight
      <4>3. flRefs[fl[u].head] # 0
        <5>1. Weight(fl[u], fl[u].head) + Count(InList(fl[u].head)) <= flRefs[fl[u].head]
          BY <4>1, WeightCounts
        <5>2. Count(InList(fl[u].head)) \in Nat  BY DEF Count
        <5> QED  BY <4>2, <5>1, <5>2
      <4> QED  BY <4>1, <4>3 DEF BlockMoves
    <3>3. ASSUME fl[u].at = "push" PROVE flNext'[fl[u].node] = flNext[fl[u].node]
      <4>1. fl[u].node \in Blocks /\ Holds(fl[u], fl[u].node)
        BY <3>1, <3>3 DEF CallOK, NodePlaces, Holds
      <4>2. ~Holds(fl[t], fl[u].node)  BY <1>5, <2>2, <4>1
      <4> QED  BY <4>1, <4>2 DEF BlockMoves
    <3> QED  BY <3>1, <3>2, <3>3 DEF LinkOK
  <2> QED  BY <2>1, <2>2
<1>13. LinksOK'  BY <1>12 DEF LinksOK
<1> QED  BY <1>2, <1>3, <1>11, <1>13 DEF FLInv

\* What is the free list's remains so when the step passes no block in or out.
LEMMA InsideStays ==
    ASSUME FLInv, NEW t \in Threads, NEW c, fl' = [fl EXCEPT ![t] = c], NEW b,
           InList(b)' \/ Holds(c, b) \/ b \in flShould'
               <=> InList(b) \/ Holds(fl[t], b) \/ b \in flShould
    PROVE  Inside(b)' <=> Inside(b)
<1>1. fl'[t] = c /\ \A u \in Threads : u # t => fl'[u] = fl[u]
  BY DEF FLInv, FLTypeOK
<1>2. Inside(b) <=> \/ InList(b) \/ Holds(fl[t], b) \/ b \in flShould
                    \/ \E u \in Threads : u # t /\ Holds(fl[u], b)
  BY DEF Inside
<1>3. Inside(b)' <=> \/ InList(b)' \/ Holds(c, b) \/ b \in flShould'
                     \/ \E u \in Threads : u # t /\ Holds(fl'[u], b)
  BY <1>1 DEF Inside
<1> QED  BY <1>1, <1>2, <1>3

FLKept == FLInv' /\ \A b \in Blocks : Inside(b)' <=> Inside(b)

\* A step that changes the call only, and neither what it holds nor its references.
LEMMA OnlyTheCall ==
    ASSUME FLInv, NEW t \in Threads, NEW c, fl' = [fl EXCEPT ![t] = c], CallOK(c),
           UNCHANGED <<flHead, flRefs, flShould, flNext>>,
           \A b \in Blocks : /\ Weight(c, b) = Weight(fl[t], b)
                             /\ Holds(c, b) <=> Holds(fl[t], b)
                             /\ Links(c, b) <=> Links(fl[t], b),
           LinkOK(c, flNext)
    PROVE  FLKept
<1>1. ListOK' /\ \A b : InList(b)' <=> InList(b)  BY HeadStays DEF FLInv
<1>2. FieldsOK  BY DEF FieldsOK, FLInv, FLTypeOK
<1>3. ASSUME NEW b \in Blocks PROVE BlockMoves(fl[t], c, b)
  <2>1. flRefs'[b] = flRefs[b] + Weight(c, b) - Weight(fl[t], b)
                               + Count(InList(b)') - Count(InList(b))
    <3>1. Weight(c, b) = Weight(fl[t], b) /\ Count(InList(b)') = Count(InList(b))
      BY <1>1 DEF Count
    <3>2. flRefs[b] \in Nat /\ Weight(fl[t], b) \in Nat /\ Count(InList(b)) \in Nat
      BY WeightCounts DEF Count
    <3> QED  BY <3>1, <3>2
  <2>2. /\ \A u \in Threads : Holds(fl[u], b) => ~InList(b)
        /\ b \in flShould => ~InList(b) /\ \A u \in Threads : Holds(fl[u], b) => Links(fl[u], b)
        /\ \A u \in Threads : Links(fl[u], b) => flRefs[b] = 0 /\ b \in flShould
    BY DEF FLInv, Apart
  <2> QED  BY <1>1, <2>1, <2>2 DEF BlockMoves
<1>4. FLInv'  BY <1>1, <1>2, <1>3, MovesFLInv
<1>5. ASSUME NEW b \in Blocks PROVE Inside(b)' <=> Inside(b)
  <2>1. fl'[t] = c /\ \A u \in Threads : u # t => fl'[u] = fl[u]
    BY DEF FLInv, FLTypeOK
  <2>2. \A u \in Threads : Holds(fl'[u], b) <=> Holds(fl[u], b)  BY <2>1
  <2> QED  BY <1>1, <2>2 DEF Inside
<1> QED  BY <1>4, <1>5 DEF FLKept

-----------------------------------------------------------------------------
(***************************************************************************)
(* The steps of try_get() and add().                                        *)
(***************************************************************************)
\* A call without a block and without references.
Free(c) ==
    /\ CallOK(c)
    /\ c.at \notin {"next", "cas", "take", "got"} \union NodePlaces

\* Such a call has nothing to do with any block.
LEMMA FreeIs ==
    ASSUME NEW c, Free(c)
    PROVE  /\ CallOK(c) /\ \A next : LinkOK(c, next)
           /\ \A b : Weight(c, b) = 0 /\ ~Holds(c, b) /\ ~Links(c, b)
BY DEF Free, LinkOK, Weight, Holds, Links, NodePlaces

\* Calls that begin, begin anew or end are such.
LEMMA FreeCalls ==
    /\ Free(NoCall)
    /\ \A head \in BlockOrNull : Free(Retry(head))
    /\ \A c : CallOK(c) => Free([c EXCEPT !.at = "load"])
<1>1. NoCall \in Call /\ Free(NoCall)
  BY DEF NoCall, Free, CallOK, Call, HeadPlaces, NodePlaces, BlockOrNull
<1>2. ASSUME NEW head \in BlockOrNull PROVE Free(Retry(head))
  BY <1>2 DEF NoCall, Retry, Free, CallOK, Call, HeadPlaces, NodePlaces, BlockOrNull
<1>3. ASSUME NEW c, CallOK(c) PROVE Free([c EXCEPT !.at = "load"])
  BY <1>3 DEF Free, CallOK, Call, HeadPlaces, NodePlaces
<1> QED  BY <1>1, <1>2, <1>3

\* What add() returns to.
LEMMA ReturnedIsFree ==
    ASSUME FLInv, NEW t \in Threads
    PROVE  Free(Returned(t))
<1>1. CallOK(fl[t])  BY DEF FLInv, FLTypeOK
<1>2. fl[t].head \in BlockOrNull  BY <1>1 DEF CallOK, Call
<1> QED  BY <1>2, FreeCalls DEF Returned

\* The call of a thread.
LEMMA CallIs ==
    ASSUME FLInv, NEW t \in Threads
    PROVE  /\ CallOK(fl[t]) /\ fl[t] \in Call /\ LinkOK(fl[t], flNext)
           /\ fl[t].head \in BlockOrNull /\ fl[t].next \in BlockOrNull /\ fl[t].node \in BlockOrNull
           /\ flHead \in BlockOrNull /\ flRefs \in [Blocks -> Nat] /\ flShould \in SUBSET Blocks
           /\ flNext \in [Blocks -> BlockOrNull]
           /\ DOMAIN fl = Threads
BY DEF FLInv, FLTypeOK, CallOK, Call, LinksOK

\* A step between two calls without a block.
LEMMA FreeKeeps ==
    ASSUME FLInv, NEW t \in Threads, NEW c, Free(c), fl' = [fl EXCEPT ![t] = c],
           Free(fl[t]), UNCHANGED <<flHead, flRefs, flShould, flNext>>
    PROVE  FLKept
BY FreeIs, OnlyTheCall

\* Loading the head, and a node without references.
LEMMA LoadKeeps ==
    ASSUME FLInv, NEW t \in Threads,
           TryGetLoad(t) \/ (TryGetRef(t) /\ flRefs[fl[t].head] = 0)
    PROVE  FLKept
<1> DEFINE c == IF fl[t].at = "load" THEN Retry(flHead) ELSE [fl[t] EXCEPT !.at = "load"]
<1>1. Free(fl[t])  BY CallIs DEF Free, TryGetLoad, TryGetRef, FLAt, NodePlaces
<1>2. Free(c)  BY CallIs, FreeCalls
<1>3. UNCHANGED <<flHead, flRefs, flShould, flNext>>
  BY DEF TryGetLoad, TryGetRef, FLGoto
<1>4. fl' = [fl EXCEPT ![t] = c]  BY DEF TryGetLoad, TryGetRef, FLGoto, FLAt
<1> HIDE DEF c
<1> QED  BY <1>1, <1>2, <1>3, <1>4, FreeKeeps

\* The link of the node is loaded.
LEMMA NextKeeps ==
    ASSUME FLInv, NEW t \in Threads, TryGetNext(t)
    PROVE  FLKept
<1> DEFINE c == [fl[t] EXCEPT !.next = flNext[fl[t].head], !.at = "cas"]
<1>1. /\ fl[t].at = "next" /\ fl' = [fl EXCEPT ![t] = c]
      /\ UNCHANGED <<flHead, flRefs, flShould, flNext>>
  BY DEF TryGetNext, FLAt
<1>2. fl[t].head \in Blocks /\ flNext[fl[t].head] \in BlockOrNull
  BY <1>1, CallIs DEF CallOK, HeadPlaces
<1>3. CallOK(c) /\ LinkOK(c, flNext)
  BY <1>1, <1>2, CallIs DEF CallOK, Call, LinkOK, HeadPlaces, NodePlaces
<1>4. \A b \in Blocks : /\ Weight(c, b) = Weight(fl[t], b)
                        /\ Holds(c, b) <=> Holds(fl[t], b)
                        /\ Links(c, b) <=> Links(fl[t], b)
  BY <1>1, CallIs DEF Weight, Holds, Links, Call
<1> HIDE DEF c
<1> QED  BY <1>1, <1>3, <1>4, OnlyTheCall

\* The head has changed behind the load of the link.
LEMMA CasFailKeeps ==
    ASSUME FLInv, NEW t \in Threads, TryGetCas(t), flHead # fl[t].head
    PROVE  FLKept
<1> DEFINE c == [NoCall EXCEPT !.at = "drop", !.head = flHead, !.node = fl[t].head]
<1>1. /\ fl[t].at = "cas" /\ fl' = [fl EXCEPT ![t] = c]
      /\ UNCHANGED <<flHead, flRefs, flShould, flNext>>
  BY DEF TryGetCas, FLAt
<1>2. fl[t].head \in Blocks  BY <1>1, CallIs DEF CallOK, HeadPlaces
<1>3. CallOK(c) /\ LinkOK(c, flNext)
  BY <1>1, <1>2, CallIs DEF CallOK, Call, LinkOK, HeadPlaces, NodePlaces, NoCall, BlockOrNull
<1>4. \A b \in Blocks : /\ Weight(c, b) = Weight(fl[t], b)
                        /\ Holds(c, b) <=> Holds(fl[t], b)
                        /\ Links(c, b) <=> Links(fl[t], b)
  BY <1>1 DEF Weight, Holds, Links, NoCall
<1> HIDE DEF c
<1> QED  BY <1>1, <1>3, <1>4, OnlyTheCall

\* The head is loaded for the link.
LEMMA AddLoadKeeps ==
    ASSUME FLInv, NEW t \in Threads, AddLoad(t)
    PROVE  FLKept
<1> DEFINE c == [fl[t] EXCEPT !.next = flHead, !.at = "refs"]
<1>1. /\ fl[t].at = "link" /\ fl' = [fl EXCEPT ![t] = c]
      /\ UNCHANGED <<flHead, flRefs, flShould, flNext>>
  BY DEF AddLoad, FLAt
<1>2. fl[t].node \in Blocks  BY <1>1, CallIs DEF CallOK, NodePlaces
<1>3. CallOK(c) /\ LinkOK(c, flNext)
  BY <1>1, <1>2, CallIs DEF CallOK, Call, LinkOK, HeadPlaces, NodePlaces
<1>4. \A b \in Blocks : /\ Weight(c, b) = Weight(fl[t], b)
                        /\ Holds(c, b) <=> Holds(fl[t], b)
                        /\ Links(c, b) <=> Links(fl[t], b)
  BY <1>1, CallIs DEF Weight, Holds, Links, Call
<1> HIDE DEF c
<1> QED  BY <1>1, <1>3, <1>4, OnlyTheCall

\* The head has changed behind the link.
LEMMA PushFailKeeps ==
    ASSUME FLInv, NEW t \in Threads, AddPush(t), flHead # fl[t].next
    PROVE  FLKept
<1> DEFINE c == [fl[t] EXCEPT !.next = flHead, !.at = "unlink"]
<1>1. /\ fl[t].at = "push" /\ fl' = [fl EXCEPT ![t] = c]
      /\ UNCHANGED <<flHead, flRefs, flShould, flNext>>
  BY DEF AddPush, FLAt
<1>2. fl[t].node \in Blocks  BY <1>1, CallIs DEF CallOK, NodePlaces
<1>3. CallOK(c) /\ LinkOK(c, flNext)
  BY <1>1, <1>2, CallIs DEF CallOK, Call, LinkOK, HeadPlaces, NodePlaces
<1>4. \A b \in Blocks : /\ Weight(c, b) = Weight(fl[t], b)
                        /\ Holds(c, b) <=> Holds(fl[t], b)
                        /\ Links(c, b) <=> Links(fl[t], b)
  BY <1>1, CallIs DEF Weight, Holds, Links, Call
<1> HIDE DEF c
<1> QED  BY <1>1, <1>3, <1>4, OnlyTheCall

\* What the invariant says of a block.
LEMMA BlockIs ==
    ASSUME FLInv, NEW b \in Blocks
    PROVE  /\ \A t, u \in Threads : Holds(fl[t], b) /\ Holds(fl[u], b) => t = u
           /\ \A t \in Threads : Holds(fl[t], b) => ~InList(b)
           /\ b \in flShould =>
                 ~InList(b) /\ \A t \in Threads : Holds(fl[t], b) => Links(fl[t], b)
           /\ \A t \in Threads : Links(fl[t], b) =>
                 flRefs[b] = 0 /\ b \in flShould /\ Holds(fl[t], b)
BY LinksHold DEF FLInv, Apart

\* A block that the step of the call does not concern.
LEMMA OtherBlock ==
    ASSUME FLInv, NEW t \in Threads, NEW c, NEW b \in Blocks,
           flRefs'[b] = flRefs[b], Weight(c, b) = Weight(fl[t], b), InList(b)' <=> InList(b),
           ~Holds(c, b), ~Holds(fl[t], b), b \in flShould' <=> b \in flShould,
           flNext'[b] = flNext[b]
    PROVE  /\ BlockMoves(fl[t], c, b)
           /\ InList(b)' \/ Holds(c, b) \/ b \in flShould'
                  <=> InList(b) \/ Holds(fl[t], b) \/ b \in flShould
<1>1. flRefs'[b] = flRefs[b] + Weight(c, b) - Weight(fl[t], b)
                             + Count(InList(b)') - Count(InList(b))
  <2>1. Weight(c, b) = Weight(fl[t], b) /\ Count(InList(b)') = Count(InList(b))
    BY DEF Count
  <2>2. flRefs[b] \in Nat /\ Weight(fl[t], b) \in Nat /\ Count(InList(b)) \in Nat
    BY WeightCounts DEF Count
  <2> QED  BY <2>1, <2>2
<1>2. ~Links(c, b)  BY LinksHold
<1>3. b \in flShould => ~InList(b)  BY BlockIs
<1> QED  BY <1>1, <1>2, <1>3 DEF BlockMoves

\* The parts of a step, put together.
LEMMA StepKeeps ==
    ASSUME FLInv, NEW t \in Threads, NEW c, fl' = [fl EXCEPT ![t] = c], CallOK(c), FieldsOK,
           ListOK', LinkOK(c, flNext'),
           \A b \in Blocks : /\ BlockMoves(fl[t], c, b)
                             /\ InList(b)' \/ Holds(c, b) \/ b \in flShould'
                                    <=> InList(b) \/ Holds(fl[t], b) \/ b \in flShould
    PROVE  FLKept
BY MovesFLInv, InsideStays DEF FLKept

\* A reference is taken.
LEMMA RefKeeps ==
    ASSUME FLInv, NEW t \in Threads, TryGetRef(t), flRefs[fl[t].head] # 0
    PROVE  FLKept
<1> DEFINE h == fl[t].head
           c == [fl[t] EXCEPT !.at = "next"]
<1>1. /\ fl[t].at = "ref" /\ fl' = [fl EXCEPT ![t] = c]
      /\ flRefs' = [flRefs EXCEPT ![h] = @ + 1]
      /\ UNCHANGED <<flHead, flShould, flNext>>
  BY DEF TryGetRef, FLAt, FLGoto
<1>2. h \in Blocks /\ flRefs[h] \in Nat  BY <1>1, CallIs DEF CallOK, HeadPlaces
<1>3. CallOK(c) /\ LinkOK(c, flNext')
  BY <1>1, <1>2, CallIs DEF CallOK, Call, LinkOK, HeadPlaces, NodePlaces
<1>4. FieldsOK  BY <1>1, <1>2, CallIs DEF FieldsOK
<1>5. ListOK' /\ \A b : InList(b)' <=> InList(b)  BY <1>1, HeadStays DEF FLInv
<1>6. /\ Weight(fl[t], h) = 0 /\ Weight(c, h) = 1
      /\ \A b \in Blocks : /\ ~Holds(c, b) /\ ~Holds(fl[t], b) /\ ~Links(c, b)
                           /\ b # h => Weight(c, b) = 0 /\ Weight(fl[t], b) = 0
  BY <1>1, CallIs DEF Weight, Holds, Links, Call
<1>7. flRefs'[h] = flRefs[h] + 1 /\ \A b \in Blocks : b # h => flRefs'[b] = flRefs[b]
  BY <1>1, <1>2, CallIs
<1> HIDE DEF c
<1>8. ASSUME NEW b \in Blocks
      PROVE  /\ BlockMoves(fl[t], c, b)
             /\ InList(b)' \/ Holds(c, b) \/ b \in flShould'
                    <=> InList(b) \/ Holds(fl[t], b) \/ b \in flShould
  <2>1. CASE b # h  BY <1>1, <1>5, <1>6, <1>7, <2>1, OtherBlock
  <2>2. CASE b = h
    <3>1. flRefs'[b] = flRefs[b] + Weight(c, b) - Weight(fl[t], b)
                         + Count(InList(b)') - Count(InList(b))
      BY <1>2, <1>5, <1>6, <1>7, <2>2 DEF Count
    <3> QED  BY <1>1, <1>2, <1>5, <1>6, <2>2, <3>1, BlockIs DEF BlockMoves
  <2> QED  BY <2>1, <2>2
<1> QED  BY <1>1, <1>3, <1>4, <1>5, <1>8, StepKeeps

\* The node is taken off the list.
LEMMA CasKeeps ==
    ASSUME FLInv, NEW t \in Threads, TryGetCas(t), flHead = fl[t].head
    PROVE  FLKept
<1> DEFINE h == fl[t].head
           c == [fl[t] EXCEPT !.at = "take"]
<1>1. /\ fl[t].at = "cas" /\ fl' = [fl EXCEPT ![t] = c] /\ flHead' = fl[t].next
      /\ UNCHANGED <<flRefs, flShould, flNext>>
  BY DEF TryGetCas, FLAt, FLGoto
<1>2. h \in Blocks /\ fl[t].next = flNext[h] /\ h # Null
  BY <1>1, CallIs, BlocksAre DEF CallOK, HeadPlaces, LinkOK
<1>3. CallOK(c) /\ LinkOK(c, flNext')
  BY <1>1, <1>2, CallIs DEF CallOK, Call, LinkOK, HeadPlaces, NodePlaces
<1>4. FieldsOK  BY <1>1, <1>2, CallIs DEF FieldsOK
<1>5. /\ ListOK' /\ \A b : InList(b)' <=> InList(b) /\ b # h
      /\ InList(h)
  BY <1>1, <1>2, HeadPops, ListEnds DEF FLInv
<1>6. /\ Weight(fl[t], h) = 1 /\ Weight(c, h) = 2 /\ Holds(c, h)
      /\ \A b \in Blocks : /\ ~Links(c, b) /\ ~Holds(fl[t], b)
                           /\ b # h => /\ Weight(c, b) = 0 /\ Weight(fl[t], b) = 0
                                       /\ ~Holds(c, b)
  BY <1>1, CallIs DEF Weight, Holds, Links, Call
<1> HIDE DEF c
<1>7. ASSUME NEW b \in Blocks
      PROVE  /\ BlockMoves(fl[t], c, b)
             /\ InList(b)' \/ Holds(c, b) \/ b \in flShould'
                    <=> InList(b) \/ Holds(fl[t], b) \/ b \in flShould
  <2>1. CASE b # h  BY <1>1, <1>5, <1>6, <2>1, OtherBlock
  <2>2. CASE b = h
    <3>1. /\ flRefs[b] \in Nat /\ Weight(c, b) = 2 /\ Weight(fl[t], b) = 1
          /\ Count(InList(b)') = 0 /\ Count(InList(b)) = 1
      BY <1>5, <1>6, <2>2, CallIs DEF Count
    <3>2. flRefs'[b] = flRefs[b] + Weight(c, b) - Weight(fl[t], b)
                         + Count(InList(b)') - Count(InList(b))
      BY <1>1, <3>1
    <3> QED  BY <1>1, <1>5, <1>6, <2>2, <3>2, BlockIs DEF BlockMoves
  <2> QED  BY <2>1, <2>2
<1> QED  BY <1>1, <1>3, <1>4, <1>5, <1>7, StepKeeps

\* Two references are dropped: the block is the thread's.
LEMMA TakeKeeps ==
    ASSUME FLInv, NEW t \in Threads, TryGetTake(t)
    PROVE  FLKept
<1> DEFINE h == fl[t].head
           c == [NoCall EXCEPT !.at = "got", !.head = h]
<1>1. /\ fl[t].at = "take" /\ fl' = [fl EXCEPT ![t] = c]
      /\ flRefs' = [flRefs EXCEPT ![h] = @ - 2]
      /\ UNCHANGED <<flHead, flShould, flNext>>
  BY DEF TryGetTake, FLAt
<1>2. h \in Blocks  BY <1>1, CallIs DEF CallOK, HeadPlaces
<1>3. CallOK(c) /\ LinkOK(c, flNext')
  BY <1>1, <1>2, CallIs DEF CallOK, Call, LinkOK, HeadPlaces, NodePlaces, NoCall, BlockOrNull
<1>4. ListOK' /\ \A b : InList(b)' <=> InList(b)  BY <1>1, HeadStays DEF FLInv
<1>5. /\ Weight(fl[t], h) = 2 /\ Weight(c, h) = 0 /\ Holds(c, h) /\ Holds(fl[t], h)
      /\ \A b \in Blocks : /\ ~Links(c, b) /\ ~Links(fl[t], b)
                           /\ b # h => /\ Weight(c, b) = 0 /\ Weight(fl[t], b) = 0
                                       /\ ~Holds(c, b) /\ ~Holds(fl[t], b)
  BY <1>1, CallIs DEF Weight, Holds, Links, Call, NoCall
<1>6. flRefs[h] \in Nat /\ flRefs[h] >= 2
  <2>1. /\ Count(InList(h)) \in Nat /\ flRefs[h] \in Nat
        /\ 2 + Count(InList(h)) <= flRefs[h]
    BY <1>2, <1>5, WeightCounts
  <2> QED  BY <2>1
<1>7. FieldsOK  BY <1>1, <1>2, <1>6, CallIs DEF FieldsOK
<1>8. flRefs'[h] = flRefs[h] - 2 /\ \A b \in Blocks : b # h => flRefs'[b] = flRefs[b]
  BY <1>1, <1>2, CallIs
<1> HIDE DEF c
<1>9. ASSUME NEW b \in Blocks
      PROVE  /\ BlockMoves(fl[t], c, b)
             /\ InList(b)' \/ Holds(c, b) \/ b \in flShould'
                    <=> InList(b) \/ Holds(fl[t], b) \/ b \in flShould
  <2>1. CASE b # h  BY <1>1, <1>4, <1>5, <1>8, <2>1, OtherBlock
  <2>2. CASE b = h
    <3>1. flRefs'[b] = flRefs[b] + Weight(c, b) - Weight(fl[t], b)
                         + Count(InList(b)') - Count(InList(b))
      BY <1>4, <1>5, <1>6, <1>8, <2>2 DEF Count
    <3> QED  BY <1>1, <1>4, <1>5, <1>6, <2>2, <3>1, BlockIs DEF BlockMoves
  <2> QED  BY <2>1, <2>2
<1> QED  BY <1>1, <1>3, <1>4, <1>7, <1>9, StepKeeps

\* A reference is dropped, and it may be the last one of a node that should be on
\* the list.
LEMMA DropKeeps ==
    ASSUME FLInv, NEW t \in Threads, TryGetDrop(t)
    PROVE  FLKept
<1> DEFINE h == fl[t].node
           last == flRefs[h] = 1 /\ h \in flShould
           c == IF last THEN [fl[t] EXCEPT !.at = "link", !.then = "retry"] ELSE Retry(fl[t].head)
<1>1. /\ fl[t].at = "drop" /\ flRefs' = [flRefs EXCEPT ![h] = @ - 1]
      /\ UNCHANGED <<flHead, flShould, flNext>>
  BY DEF TryGetDrop, FLAt
<1>2. fl' = [fl EXCEPT ![t] = c]  BY DEF TryGetDrop
<1>3. h \in Blocks  BY <1>1, CallIs DEF CallOK, NodePlaces
<1>4. ListOK' /\ \A b : InList(b)' <=> InList(b)  BY <1>1, HeadStays DEF FLInv
<1>5. Weight(fl[t], h) = 1 /\ \A b \in Blocks : /\ ~Holds(fl[t], b) /\ ~Links(fl[t], b)
                                                /\ b # h => Weight(fl[t], b) = 0
  BY <1>1, CallIs DEF Weight, Holds, Links, Call
<1>6. flRefs[h] \in Nat /\ flRefs[h] >= 1
  <2>1. /\ Count(InList(h)) \in Nat /\ flRefs[h] \in Nat
        /\ 1 + Count(InList(h)) <= flRefs[h]
    BY <1>3, <1>5, WeightCounts
  <2> QED  BY <2>1
<1>7. FieldsOK  BY <1>1, <1>3, <1>6, CallIs DEF FieldsOK
<1>8. flRefs'[h] = flRefs[h] - 1 /\ \A b \in Blocks : b # h => flRefs'[b] = flRefs[b]
  BY <1>1, <1>3, CallIs
<1>9. /\ CallOK(c) /\ LinkOK(c, flNext')
      /\ \A b \in Blocks : /\ Weight(c, b) = 0
                           /\ Holds(c, b) <=> last /\ b = h
                           /\ Holds(c, b) => Links(c, b)
  <2>1. CASE last
    <3>1. c = [fl[t] EXCEPT !.at = "link", !.then = "retry"]  BY <2>1
    <3>2. c \in Call /\ c.at = "link" /\ c.node = h
      BY <3>1, CallIs DEF Call, NodePlaces
    <3> HIDE DEF c
    <3> QED  BY <1>3, <2>1, <3>2 DEF CallOK, LinkOK, Weight, Holds, Links, HeadPlaces
  <2>2. CASE ~last
    <3>1. c = Retry(fl[t].head)  BY <2>2
    <3>2. Free(c)  BY <3>1, CallIs, FreeCalls
    <3> HIDE DEF c
    <3> QED  BY <2>2, <3>2, FreeIs
  <2> QED  BY <2>1, <2>2
<1> HIDE DEF c
<1>10. ASSUME NEW b \in Blocks
      PROVE  /\ BlockMoves(fl[t], c, b)
             /\ InList(b)' \/ Holds(c, b) \/ b \in flShould'
                    <=> InList(b) \/ Holds(fl[t], b) \/ b \in flShould
  <2>1. CASE b # h  BY <1>1, <1>4, <1>5, <1>8, <1>9, <2>1, OtherBlock
  <2>2. CASE b = h
    <3>1. flRefs'[b] = flRefs[b] + Weight(c, b) - Weight(fl[t], b)
                         + Count(InList(b)') - Count(InList(b))
      BY <1>4, <1>5, <1>6, <1>8, <1>9, <2>2 DEF Count
    <3>2. b \in flShould => ~InList(b) /\ \A u \in Threads : ~Holds(fl[u], b)
      BY <1>6, <2>2, BlockIs
    <3>3. last => flRefs'[b] = 0 /\ b \in flShould'  BY <1>1, <1>8, <2>2
    <3>4. Links(c, b) => Holds(c, b)  BY LinksHold
    <3> QED  BY <1>1, <1>4, <1>5, <1>6, <1>9, <2>2, <3>1, <3>2, <3>3, <3>4 DEF BlockMoves
  <2> QED  BY <2>1, <2>2
<1> QED  BY <1>2, <1>4, <1>7, <1>9, <1>10, StepKeeps

\* add() marks its node, and leaves it to others that still look at it.
LEMMA AddKeeps ==
    ASSUME FLInv, NEW t \in Threads, Add(t)
    PROVE  FLKept
<1> DEFINE h == fl[t].node
           now == flRefs[h] = 0 /\ h \notin flShould
           c == IF now THEN [fl[t] EXCEPT !.at = "link"] ELSE Returned(t)
<1>1. /\ fl[t].at = "add" /\ flShould' = flShould \union {h}
      /\ UNCHANGED <<flHead, flRefs, flNext>>
  BY DEF Add, FLAt
<1>2. fl' = [fl EXCEPT ![t] = c]  BY DEF Add, FLGoto
<1>3. h \in Blocks  BY <1>1, CallIs DEF CallOK, NodePlaces
<1>4. ListOK' /\ \A b : InList(b)' <=> InList(b)  BY <1>1, HeadStays DEF FLInv
<1>5. Holds(fl[t], h) /\ \A b \in Blocks : /\ Weight(fl[t], b) = 0 /\ ~Links(fl[t], b)
                                           /\ b # h => ~Holds(fl[t], b)
  BY <1>1, CallIs DEF Weight, Holds, Links, Call
<1>6. FieldsOK  BY <1>1, <1>3, CallIs DEF FieldsOK
<1>7. h \notin flShould /\ ~InList(h)  BY <1>3, <1>5, BlockIs
<1>8. /\ CallOK(c) /\ LinkOK(c, flNext')
      /\ \A b \in Blocks : /\ Weight(c, b) = 0
                           /\ Holds(c, b) <=> now /\ b = h
                           /\ Holds(c, b) => Links(c, b)
  <2>1. CASE now
    <3>1. c = [fl[t] EXCEPT !.at = "link"]  BY <2>1
    <3>2. c \in Call /\ c.at = "link" /\ c.node = h
      BY <3>1, CallIs DEF Call, NodePlaces
    <3> HIDE DEF c
    <3> QED  BY <1>3, <2>1, <3>2 DEF CallOK, LinkOK, Weight, Holds, Links, HeadPlaces
  <2>2. CASE ~now
    <3>1. Free(c)  BY <2>2, ReturnedIsFree
    <3> HIDE DEF c
    <3> QED  BY <2>2, <3>1, FreeIs
  <2> QED  BY <2>1, <2>2
<1> HIDE DEF c
<1>9. ASSUME NEW b \in Blocks
      PROVE  /\ BlockMoves(fl[t], c, b)
             /\ InList(b)' \/ Holds(c, b) \/ b \in flShould'
                    <=> InList(b) \/ Holds(fl[t], b) \/ b \in flShould
  <2>1. CASE b # h  BY <1>1, <1>4, <1>5, <1>8, <2>1, OtherBlock
  <2>2. CASE b = h
    <3>1. flRefs[b] \in Nat  BY CallIs
    <3>2. flRefs'[b] = flRefs[b] + Weight(c, b) - Weight(fl[t], b)
                         + Count(InList(b)') - Count(InList(b))
      BY <1>1, <1>4, <1>5, <1>8, <2>2, <3>1 DEF Count
    <3>3. Links(c, b) => Holds(c, b)  BY LinksHold
    <3> QED  BY <1>1, <1>4, <1>5, <1>7, <1>8, <2>2, <3>2, <3>3 DEF BlockMoves
  <2> QED  BY <2>1, <2>2
<1> QED  BY <1>2, <1>4, <1>6, <1>8, <1>9, StepKeeps

\* The node is linked and gets its first reference.
LEMMA LinkKeeps ==
    ASSUME FLInv, NEW t \in Threads, AddLink(t)
    PROVE  FLKept
<1> DEFINE h == fl[t].node
           c == [fl[t] EXCEPT !.at = "push"]
<1>1. /\ fl[t].at = "refs" /\ fl' = [fl EXCEPT ![t] = c] /\ flHead' = flHead
      /\ flNext' = [flNext EXCEPT ![h] = fl[t].next] /\ flRefs' = [flRefs EXCEPT ![h] = 1]
      /\ flShould' = flShould \ {h}
  BY DEF AddLink, FLAt, FLGoto
<1>2. h \in Blocks /\ fl[t].next \in BlockOrNull
  BY <1>1, CallIs DEF CallOK, NodePlaces
<1>3. CallOK(c) /\ LinkOK(c, flNext') /\ c.at = "push" /\ c.node = h
  <2>1. c \in Call /\ c.at = "push" /\ c.node = h /\ c.next = fl[t].next
    BY CallIs DEF Call, NodePlaces
  <2>2. flNext'[h] = fl[t].next  BY <1>1, <1>2, CallIs
  <2> HIDE DEF c
  <2> QED  BY <1>2, <2>1, <2>2 DEF CallOK, LinkOK, HeadPlaces
<1>4. FieldsOK  BY <1>1, <1>2, CallIs DEF FieldsOK
<1>5. /\ Weight(fl[t], h) = 0 /\ Weight(c, h) = 1 /\ Holds(c, h) /\ Holds(fl[t], h)
      /\ Links(fl[t], h)
      /\ \A b \in Blocks : /\ ~Links(c, b)
                           /\ b # h => /\ Weight(c, b) = 0 /\ Weight(fl[t], b) = 0
                                       /\ ~Holds(c, b) /\ ~Holds(fl[t], b)
  <2> HIDE DEF c
  <2> QED  BY <1>1, <1>3, CallIs DEF Weight, Holds, Links
<1>6. flRefs[h] = 0 /\ ~InList(h)  BY <1>2, <1>5, BlockIs
<1>7. ListOK' /\ \A b : InList(b)' <=> InList(b)
  <2>1. \A b : InList(b) => flNext'[b] = flNext[b]
    BY <1>1, <1>6, ListEnds, CallIs DEF FLInv
  <2> QED  BY <1>1, <2>1, HeadStays DEF FLInv
<1>8. /\ flRefs'[h] = 1 /\ \A b \in Blocks : b # h => flRefs'[b] = flRefs[b]
      /\ \A b \in Blocks : b # h => flNext'[b] = flNext[b]
  BY <1>1, <1>2, CallIs
<1> HIDE DEF c
<1>9. ASSUME NEW b \in Blocks
      PROVE  /\ BlockMoves(fl[t], c, b)
             /\ InList(b)' \/ Holds(c, b) \/ b \in flShould'
                    <=> InList(b) \/ Holds(fl[t], b) \/ b \in flShould
  <2>1. CASE b # h  BY <1>1, <1>5, <1>7, <1>8, <2>1, OtherBlock
  <2>2. CASE b = h
    <3>1. flRefs'[b] = flRefs[b] + Weight(c, b) - Weight(fl[t], b)
                         + Count(InList(b)') - Count(InList(b))
      BY <1>5, <1>6, <1>7, <1>8, <2>2 DEF Count
    <3> QED  BY <1>1, <1>5, <1>6, <1>7, <2>2, <3>1 DEF BlockMoves
  <2> QED  BY <2>1, <2>2
<1> QED  BY <1>1, <1>3, <1>4, <1>7, <1>9, StepKeeps

\* The node is on the list.
LEMMA PushKeeps ==
    ASSUME FLInv, NEW t \in Threads, AddPush(t), flHead = fl[t].next
    PROVE  FLKept
<1> DEFINE h == fl[t].node
           c == Returned(t)
<1>1. /\ fl[t].at = "push" /\ fl' = [fl EXCEPT ![t] = c] /\ flHead' = h
      /\ UNCHANGED <<flRefs, flShould, flNext>>
  BY DEF AddPush, FLAt
<1>2. h \in Blocks /\ flNext[h] = flHead
  BY <1>1, CallIs DEF CallOK, NodePlaces, LinkOK
<1>3. Free(c)  BY ReturnedIsFree
<1>4. /\ Weight(fl[t], h) = 1 /\ Holds(fl[t], h)
      /\ \A b \in Blocks : /\ ~Links(fl[t], b)
                           /\ b # h => Weight(fl[t], b) = 0 /\ ~Holds(fl[t], b)
  BY <1>1, CallIs DEF Weight, Holds, Links
<1>5. ~InList(h) /\ h \notin flShould  BY <1>2, <1>4, BlockIs
<1>6. ListOK' /\ \A b : InList(b)' <=> InList(b) \/ b = h
  BY <1>1, <1>2, <1>5, HeadPushes DEF FLInv
<1>7. FieldsOK  BY <1>1, <1>2, CallIs DEF FieldsOK, BlockOrNull
<1> HIDE DEF c
<1>8. CallOK(c) /\ LinkOK(c, flNext') /\ \A b : Weight(c, b) = 0 /\ ~Holds(c, b) /\ ~Links(c, b)
  BY <1>3, FreeIs
<1>9. ASSUME NEW b \in Blocks
      PROVE  /\ BlockMoves(fl[t], c, b)
             /\ InList(b)' \/ Holds(c, b) \/ b \in flShould'
                    <=> InList(b) \/ Holds(fl[t], b) \/ b \in flShould
  <2>1. CASE b # h  BY <1>1, <1>4, <1>6, <1>8, <2>1, OtherBlock
  <2>2. CASE b = h
    <3>1. flRefs[b] \in Nat  BY CallIs
    <3>2. flRefs'[b] = flRefs[b] + Weight(c, b) - Weight(fl[t], b)
                         + Count(InList(b)') - Count(InList(b))
      BY <1>1, <1>4, <1>5, <1>6, <1>8, <2>2, <3>1 DEF Count
    <3> QED  BY <1>1, <1>4, <1>5, <1>6, <1>8, <2>2, <3>2 DEF BlockMoves
  <2> QED  BY <2>1, <2>2
<1> QED  BY <1>1, <1>6, <1>7, <1>8, <1>9, StepKeeps

\* The node could not be put on the list: it is marked again.
LEMMA UnlinkKeeps ==
    ASSUME FLInv, NEW t \in Threads, AddUnlink(t)
    PROVE  FLKept
<1> DEFINE h == fl[t].node
           now == flRefs[h] = 1 /\ h \notin flShould
           c == IF now THEN [fl[t] EXCEPT !.at = "refs"] ELSE Returned(t)
<1>1. /\ fl[t].at = "unlink" /\ flShould' = flShould \union {h}
      /\ flRefs' = [flRefs EXCEPT ![h] = @ - 1]
      /\ UNCHANGED <<flHead, flNext>>
  BY DEF AddUnlink, FLAt
<1>2. fl' = [fl EXCEPT ![t] = c]  BY DEF AddUnlink, FLGoto
<1>3. h \in Blocks  BY <1>1, CallIs DEF CallOK, NodePlaces
<1>4. ListOK' /\ \A b : InList(b)' <=> InList(b)  BY <1>1, HeadStays DEF FLInv
<1>5. /\ Holds(fl[t], h) /\ Weight(fl[t], h) = 1
      /\ \A b \in Blocks : /\ ~Links(fl[t], b)
                           /\ b # h => Weight(fl[t], b) = 0 /\ ~Holds(fl[t], b)
  BY <1>1, CallIs DEF Weight, Holds, Links
<1>6. flRefs[h] \in Nat /\ flRefs[h] >= 1
  <2>1. /\ Count(InList(h)) \in Nat /\ flRefs[h] \in Nat
        /\ 1 + Count(InList(h)) <= flRefs[h]
    BY <1>3, <1>5, WeightCounts
  <2> QED  BY <2>1
<1>7. FieldsOK  BY <1>1, <1>3, <1>6, CallIs DEF FieldsOK
<1>8. flRefs'[h] = flRefs[h] - 1 /\ \A b \in Blocks : b # h => flRefs'[b] = flRefs[b]
  BY <1>1, <1>3, CallIs
<1>9. h \notin flShould /\ ~InList(h)  BY <1>3, <1>5, BlockIs
<1>10. /\ CallOK(c) /\ LinkOK(c, flNext')
       /\ \A b \in Blocks : /\ Weight(c, b) = 0
                            /\ Holds(c, b) <=> now /\ b = h
                            /\ Holds(c, b) => Links(c, b)
  <2>1. CASE now
    <3>1. c = [fl[t] EXCEPT !.at = "refs"]  BY <2>1
    <3>2. c \in Call /\ c.at = "refs" /\ c.node = h
      BY <3>1, CallIs DEF Call, NodePlaces
    <3> HIDE DEF c
    <3> QED  BY <1>3, <2>1, <3>2 DEF CallOK, LinkOK, Weight, Holds, Links, HeadPlaces
  <2>2. CASE ~now
    <3>1. Free(c)  BY <2>2, ReturnedIsFree
    <3> HIDE DEF c
    <3> QED  BY <2>2, <3>1, FreeIs
  <2> QED  BY <2>1, <2>2
<1> HIDE DEF c
<1>11. ASSUME NEW b \in Blocks
      PROVE  /\ BlockMoves(fl[t], c, b)
             /\ InList(b)' \/ Holds(c, b) \/ b \in flShould'
                    <=> InList(b) \/ Holds(fl[t], b) \/ b \in flShould
  <2>1. CASE b # h  BY <1>1, <1>4, <1>5, <1>8, <1>10, <2>1, OtherBlock
  <2>2. CASE b = h
    <3>1. flRefs'[b] = flRefs[b] + Weight(c, b) - Weight(fl[t], b)
                         + Count(InList(b)') - Count(InList(b))
      BY <1>4, <1>5, <1>6, <1>8, <1>10, <2>2 DEF Count
    <3>2. Links(c, b) => Holds(c, b)  BY LinksHold
    <3>3. now => flRefs'[b] = 0  BY <1>8, <2>2
    <3> QED  BY <1>1, <1>4, <1>5, <1>9, <1>10, <2>2, <3>1, <3>2, <3>3 DEF BlockMoves
  <2> QED  BY <2>1, <2>2
<1> QED  BY <1>2, <1>4, <1>7, <1>10, <1>11, StepKeeps

\* Every step of the free list keeps its invariant, and what is its own.
LEMMA ListStepKeeps ==
    ASSUME FLInv, NEW t \in Threads, FLNext(t)
    PROVE  FLKept
<1>1. TryGet(t) => FLKept
  BY LoadKeeps, RefKeeps, NextKeeps, CasKeeps, CasFailKeeps, TakeKeeps, DropKeeps DEF TryGet
<1>2. AddNext(t) => FLKept
  BY AddKeeps, AddLoadKeeps, LinkKeeps, PushKeeps, PushFailKeeps, UnlinkKeeps DEF AddNext
<1> QED  BY <1>1, <1>2 DEF FLNext

-----------------------------------------------------------------------------
(***************************************************************************)
(* Blocks that come to the free list and go.                                *)
(***************************************************************************)
\* The list starts empty, and nothing is inside.
LEMMA InitFLInv == FLInit => FLInv /\ \A b \in Blocks : ~Inside(b)
<1> SUFFICES ASSUME FLInit PROVE FLInv /\ \A b \in Blocks : ~Inside(b)  OBVIOUS
<1>1. /\ flHead = Null /\ flRefs = [b \in Blocks |-> 0] /\ flShould = {}
      /\ flNext = [b \in Blocks |-> Null] /\ fl = [t \in Threads |-> NoCall]
  BY DEF FLInit
<1>2. Free(NoCall) /\ \A t \in Threads : fl[t] = NoCall  BY <1>1, FreeCalls
<1>3. FLTypeOK  BY <1>1, <1>2, FreeIs DEF FLTypeOK, BlockOrNull
<1>4. ListIs([i \in 1 .. 0 |-> Null], 0, flHead, flNext)  BY <1>1 DEF ListIs
<1>5. ListOK  BY <1>4, Zenon DEF ListOK
<1>6. \A b : ~InList(b)
  <2>1. \A b : InList(b) <=> b \in NodesOf([i \in 1 .. 0 |-> Null], 0)
    BY <1>4, ListGives
  <2> QED  BY <2>1 DEF NodesOf
<1>7. \A b : \A t \in Threads : /\ ~Holds(fl[t], b) /\ ~Links(fl[t], b)
                                /\ LinkOK(fl[t], flNext)
  BY <1>2, FreeIs
<1>8. RefsOK
  <2> SUFFICES ASSUME NEW b \in Blocks PROVE flRefs[b] = References(b, InList(b))
    BY DEF RefsOK
  <2>1. Once(b) = {} /\ Twice(b) = {} /\ Adding(b) = {}
    BY <1>2 DEF Once, Twice, Adding, NoCall
  <2>2. Held(b) = 0  BY <2>1, FS_EmptySet DEF Held
  <2>3. Count(InList(b)) = 0  BY <1>6 DEF Count
  <2>4. References(b, InList(b)) = Held(b) + Count(InList(b))  BY ReferencesAre
  <2> QED  BY <1>1, <2>2, <2>3, <2>4
<1>9. Apart  BY <1>1, <1>7 DEF Apart
<1>10. LinksOK  BY <1>7 DEF LinksOK
<1>11. \A b \in Blocks : ~Inside(b)  BY <1>1, <1>6, <1>7 DEF Inside
<1> QED  BY <1>3, <1>5, <1>8, <1>9, <1>10, <1>11 DEF FLInv

\* A block that stands still while the call of t changes.
ListStill == UNCHANGED <<flHead, flRefs, flShould, flNext>>

\* try_get() begins, and ends with nothing.
LEMMA NothingKeeps ==
    ASSUME FLInv, NEW t \in Threads, ListStill,
           \/ fl[t].at = "none" /\ fl' = [fl EXCEPT ![t].at = "load"]
           \/ fl[t].at = "null" /\ fl' = [fl EXCEPT ![t] = NoCall]
    PROVE  FLKept
<1> DEFINE c == IF fl[t].at = "none" THEN [fl[t] EXCEPT !.at = "load"] ELSE NoCall
<1>1. Free(fl[t])  BY CallIs DEF Free, NodePlaces
<1>2. Free(c)  BY CallIs, FreeCalls
<1>3. fl' = [fl EXCEPT ![t] = c]  OBVIOUS
<1> HIDE DEF c
<1> QED  BY <1>1, <1>2, <1>3, FreeKeeps DEF ListStill

\* try_get() ends with a block.
LEMMA GotKeeps ==
    ASSUME FLInv, NEW t \in Threads, ListStill, fl[t].at = "got", fl' = [fl EXCEPT ![t] = NoCall],
           NEW h, h = fl[t].head
    PROVE  /\ FLInv' /\ h \in Blocks /\ Inside(h) /\ ~Inside(h)'
           /\ \A b \in Blocks : b # h => (Inside(b)' <=> Inside(b))
<1>1. h \in Blocks  BY CallIs DEF CallOK, HeadPlaces
<1>2. ListOK' /\ \A b : InList(b)' <=> InList(b)  BY HeadStays DEF FLInv, ListStill
<1>3. CallOK(NoCall) /\ \A next : LinkOK(NoCall, next)  BY FreeCalls, FreeIs
<1>4. \A b : Weight(NoCall, b) = 0 /\ ~Holds(NoCall, b) /\ ~Links(NoCall, b)
  BY FreeCalls, FreeIs
<1>5. Holds(fl[t], h) /\ \A b \in Blocks : /\ Weight(fl[t], b) = 0 /\ ~Links(fl[t], b)
                                           /\ b # h => ~Holds(fl[t], b)
  BY DEF Weight, Holds, Links
<1>6. h \notin flShould /\ ~InList(h) /\ \A u \in Threads : Holds(fl[u], h) => u = t
  BY <1>1, <1>5, BlockIs
<1>7. FieldsOK  BY CallIs DEF FieldsOK, ListStill
<1>8. ASSUME NEW b \in Blocks PROVE BlockMoves(fl[t], NoCall, b)
  <2>1. CASE b # h  BY <1>2, <1>4, <1>5, <2>1, OtherBlock DEF ListStill
  <2>2. CASE b = h
    <3>1. flRefs[b] \in Nat  BY CallIs
    <3>2. flRefs'[b] = flRefs[b] + Weight(NoCall, b) - Weight(fl[t], b)
                         + Count(InList(b)') - Count(InList(b))
      BY <1>2, <1>4, <1>5, <1>6, <2>2, <3>1 DEF Count, ListStill
    <3> QED  BY <1>2, <1>4, <1>5, <1>6, <2>2, <3>2 DEF BlockMoves, ListStill
  <2> QED  BY <2>1, <2>2
<1>9. FLInv'  BY <1>2, <1>3, <1>7, <1>8, MovesFLInv
<1>10. ASSUME NEW b \in Blocks, b # h PROVE Inside(b)' <=> Inside(b)
  BY <1>2, <1>4, <1>5, <1>10, InsideStays DEF ListStill
<1>11. Inside(h)  BY <1>5 DEF Inside
<1>12. ~Inside(h)'
  <2>1. fl'[t] = NoCall /\ \A u \in Threads : u # t => fl'[u] = fl[u]  BY CallIs
  <2>2. \A u \in Threads : ~Holds(fl'[u], h)  BY <1>4, <1>6, <2>1
  <2>3. ~InList(h)' /\ h \notin flShould'  BY <1>2, <1>6 DEF ListStill
  <2> QED  BY <2>2, <2>3 DEF Inside
<1> QED  BY <1>1, <1>9, <1>10, <1>11, <1>12

\* add() begins with a block that the list does not have.
LEMMA GiveKeeps ==
    ASSUME FLInv, NEW t \in Threads, ListStill, fl[t].at = "none", NEW h \in Blocks, ~Inside(h),
           fl' = [fl EXCEPT ![t] = [NoCall EXCEPT !.at = "add", !.node = h]]
    PROVE  /\ FLInv' /\ Inside(h)'
           /\ \A b \in Blocks : b # h => (Inside(b)' <=> Inside(b))
<1> DEFINE c == [NoCall EXCEPT !.at = "add", !.node = h]
<1>1. CallOK(c) /\ \A next : LinkOK(c, next)
  BY DEF CallOK, Call, LinkOK, HeadPlaces, NodePlaces, NoCall, BlockOrNull
<1>2. ListOK' /\ \A b : InList(b)' <=> InList(b)  BY HeadStays DEF FLInv, ListStill
<1>3. Holds(c, h) /\ \A b \in Blocks : /\ Weight(c, b) = 0 /\ ~Links(c, b)
                                       /\ b # h => ~Holds(c, b)
  BY DEF Weight, Holds, Links, NoCall
<1>4. \A b \in Blocks : Weight(fl[t], b) = 0 /\ ~Holds(fl[t], b) /\ ~Links(fl[t], b)
  BY DEF Weight, Holds, Links
<1>5. ~InList(h) /\ h \notin flShould /\ \A u \in Threads : ~Holds(fl[u], h)
  BY DEF Inside
<1>6. FieldsOK  BY CallIs DEF FieldsOK, ListStill
<1>7. fl' = [fl EXCEPT ![t] = c] /\ fl'[t] = c  BY CallIs
<1> HIDE DEF c
<1>8. ASSUME NEW b \in Blocks PROVE BlockMoves(fl[t], c, b)
  <2>1. CASE b # h  BY <1>2, <1>3, <1>4, <1>7, <2>1, OtherBlock DEF ListStill
  <2>2. CASE b = h
    <3>1. flRefs[b] \in Nat  BY CallIs
    <3>2. flRefs'[b] = flRefs[b] + Weight(c, b) - Weight(fl[t], b)
                         + Count(InList(b)') - Count(InList(b))
      BY <1>2, <1>3, <1>4, <1>5, <2>2, <3>1 DEF Count, ListStill
    <3> QED  BY <1>2, <1>3, <1>4, <1>5, <2>2, <3>2 DEF BlockMoves, ListStill
  <2> QED  BY <2>1, <2>2
<1>9. FLInv'  BY <1>1, <1>2, <1>6, <1>7, <1>8, MovesFLInv
<1>10. ASSUME NEW b \in Blocks, b # h PROVE Inside(b)' <=> Inside(b)
  BY <1>2, <1>3, <1>4, <1>7, <1>10, InsideStays DEF ListStill
<1>11. Inside(h)'  BY <1>3, <1>7 DEF Inside
<1> QED  BY <1>9, <1>10, <1>11

-----------------------------------------------------------------------------
(***************************************************************************)
(* The block index: one producer's entries and headers.                     *)
(***************************************************************************)
Entry   == [key : Nat, value : BlockOrNull]
Headers == [index : UNION {[0 .. n - 1 -> Nat] : n \in Nat}, tail : Nat]

\* The key of the j-th block.
KeyOf(j) == BlockSize * j

\* The header h of an index with n slots, for N entries.
HeaderOK(h, n, N) ==
    /\ n \in Nat \ {0}
    /\ h.index \in [0 .. n - 1 -> 1 .. N]
    /\ h.tail \in 0 .. n - 1
    /\ h = [index |-> h.index, tail |-> h.tail]

\* The slot that is d behind the tail.
SlotAt(h, n, d) == IF d <= h.tail THEN h.tail - d ELSE h.tail - d + n

\* The entries from the tail backwards.
View(h, n) == [d \in 0 .. n - 1 |-> h.index[SlotAt(h, n, d)]]

Used(es, e)   == es[e].key # NoKey
Valued(es, e) == es[e].value # Null

\* A producer may have an entry that waits for its block, or one that has it but no
\* element yet.
Stages == {"none", "unlinked", "linked"}

\* The m-th block is the next one to be inserted.
NextIs(m, tail, stage) ==
    IF stage = "none" THEN tail <= KeyOf(m) /\ KeyOf(m) < tail + BlockSize
    ELSE KeyOf(m) = tail + BlockSize

\* The entries from the tail backwards are those of the last blocks; the one behind
\* the tail may have been given back for want of memory.  Those that were never
\* used are the last ones.
QueueOK(es, q, n, m, stage) ==
    /\ \A d \in 0 .. n - 1 : Used(es, q[d]) =>
          \/ es[q[d]].key = KeyOf(m - 1 - d)
          \/ d = n - 1 /\ stage = "none" /\ es[q[d]].key = KeyOf(m) /\ ~Valued(es, q[d])
    /\ \A d \in 0 .. n - 1 : Valued(es, q[d]) => Used(es, q[d])
    /\ \A d \in 0 .. n - 1 :
          Used(es, q[d]) /\ (d < n - 1 \/ Valued(es, q[d]) \/ stage # "none") =>
              \A c \in 0 .. d : Used(es, q[c])
    /\ stage # "none" => Used(es, q[0])
    /\ stage = "unlinked" => ~Valued(es, q[0])

Bijective(q, n) ==
    /\ \A c, d \in 0 .. n - 1 : q[c] = q[d] => c = d
    /\ \A e \in 1 .. n : \E d \in 0 .. n - 1 : q[d] = e

CurrentOK(es, h, tail, stage) ==
    /\ Len(es) >= 2 /\ HeaderOK(h, Len(es), Len(es))
    /\ Bijective(View(h, Len(es)), Len(es))
    /\ \E m \in Nat : NextIs(m, tail, stage)
                      /\ QueueOK(es, View(h, Len(es)), Len(es), m, stage)

\* The slot s is of the blocks s + c, and those whole turns away.
Aligned(es, h, n) ==
    \E c \in Int : \A s \in 0 .. n - 1 : Used(es, h.index[s]) =>
        \E k \in Int : es[h.index[s]].key = KeyOf(s + c + k * n)

\* A header that was replaced: its slots are all in use.
ReplacedOK(es, h) ==
    \E n \in Nat, j \in Nat :
        /\ HeaderOK(h, n, Len(es)) /\ Len(es) = j * n
        /\ Aligned(es, h, n)
        /\ \A s \in 0 .. n - 1 : Used(es, h.index[s])

IndexOK(es, hs, tail, stage) ==
    /\ es \in Seq(Entry) /\ hs \in Seq(Headers) /\ Len(hs) > 0
    /\ tail \in Nat /\ stage \in Stages
    /\ CurrentOK(es, hs[Len(hs)], tail, stage)
    /\ \A i \in 1 .. Len(hs) - 1 : ReplacedOK(es, hs[i])

\* BLOCK_SIZE and the first size of the index.
LEMMA SizesAre ==
    /\ BlockSize \in Nat /\ BlockSize >= 2
    /\ IndexSize \in Nat /\ IndexSize >= 2
<1>1. BlockSize \in Nat /\ BlockSize >= 2  BY BlockSizeAssumption
<1>2. IndexSize \in Nat /\ IndexSize >= 2  BY IndexSizeAssumption
<1> QED  BY <1>1, <1>2

\* Keys are apart by the size of a block, and none is NoKey.
LEMMA KeysAre ==
    /\ \A i \in Int : KeyOf(i) \in Int /\ KeyOf(i) # NoKey /\ KeyOf(i + 1) = KeyOf(i) + BlockSize
    /\ \A i, j \in Int : KeyOf(i) = KeyOf(j) => i = j
    /\ \A i \in Nat : KeyOf(i) \in Nat
    /\ \A i, j \in Int : i < j => KeyOf(i) + BlockSize <= KeyOf(j)
    /\ KeyOf(0) = 0
<1>1. BlockSize \in Nat /\ BlockSize >= 2  BY SizesAre
<1> DEFINE B == BlockSize
<1> HIDE DEF B
<1>2. B \in Nat /\ B >= 2 /\ \A i : KeyOf(i) = B * i  BY <1>1 DEF KeyOf, B
<1>3. \A i \in Int : B * i \in Int /\ B * (i + 1) = B * i + B  BY <1>2
<1>4. \A i, j \in Int : i < j => B * i + B <= B * j
  <2> SUFFICES ASSUME NEW i \in Int, NEW j \in Int, i < j PROVE B * i + B <= B * j
    OBVIOUS
  <2>1. B * (i + 1) <= B * j  BY <1>2
  <2> QED  BY <1>2, <1>3, <2>1
<1>5. \A i \in Int : B * i # NoKey
  <2> SUFFICES ASSUME NEW i \in Int, B * i = 1 PROVE FALSE  BY DEF NoKey
  <2>1. CASE i <= 0
    <3>1. i = 0 \/ i < 0  BY <2>1
    <3>2. i < 0 => B * i + B <= B * 0  BY <1>4
    <3> QED  BY <1>2, <3>1, <3>2
  <2>2. CASE i > 0
    <3>1. B * 0 + B <= B * i  BY <1>4, <2>2
    <3> QED  BY <1>2, <3>1
  <2> QED  BY <2>1, <2>2
<1>6. \A i, j \in Int : B * i = B * j => i = j
  <2> SUFFICES ASSUME NEW i \in Int, NEW j \in Int, B * i = B * j PROVE i = j
    OBVIOUS
  <2>1. i < j => B * i + B <= B * j  BY <1>4
  <2>2. j < i => B * j + B <= B * i  BY <1>4
  <2> QED  BY <1>2, <1>3, <2>1, <2>2
<1>7. \A i \in Nat : B * i \in Nat  BY <1>2
<1>8. B * 0 = 0  BY <1>2
<1>9. B = BlockSize  BY DEF B
<1> QED  BY <1>2, <1>3, <1>4, <1>5, <1>6, <1>7, <1>8, <1>9

\* The first index behind the element i of the block it is in.
Base(i) == i - (i % BlockSize)

\* It is the key of a block, and the element is in that block.
LEMMA BaseIs ==
    ASSUME NEW i \in Nat
    PROVE  /\ Base(i) = KeyOf(i \div BlockSize) /\ i \div BlockSize \in Nat
           /\ i % BlockSize \in 0 .. BlockSize - 1
           /\ Base(i) \in Nat /\ Base(i) <= i /\ i < Base(i) + BlockSize
           /\ Base(i) + (i % BlockSize) = i
           /\ \A j \in Int : KeyOf(j) <= i /\ i < KeyOf(j) + BlockSize => Base(i) = KeyOf(j)
<1>1. BlockSize \in Nat \ {0}  BY SizesAre
<1>2. /\ i % BlockSize \in Nat /\ i \div BlockSize \in Nat
      /\ i = BlockSize * (i \div BlockSize) + (i % BlockSize)
  BY <1>1, DivMod, Zenon
<1>3. i % BlockSize \in 0 .. BlockSize - 1  BY <1>1, CellInRing
<1>4. KeyOf(i \div BlockSize) = BlockSize * (i \div BlockSize)  BY DEF KeyOf
<1>5. KeyOf(i \div BlockSize) \in Nat  BY <1>2, KeysAre
<1> DEFINE r == i % BlockSize
           j == i \div BlockSize
<1> HIDE DEF r, j
<1>6. /\ i = KeyOf(j) + r /\ r \in 0 .. BlockSize - 1 /\ KeyOf(j) \in Nat /\ j \in Nat
      /\ Base(i) = i - r
  BY <1>2, <1>3, <1>4, <1>5 DEF r, j, Base
<1>7. Base(i) = KeyOf(j)  BY <1>6
<1>8. ASSUME NEW k \in Int, KeyOf(k) <= i, i < KeyOf(k) + BlockSize PROVE k = j
  <2>1. k < j => KeyOf(k) + BlockSize <= KeyOf(j)  BY <1>6, KeysAre
  <2>2. j < k => KeyOf(j) + BlockSize <= KeyOf(k)  BY <1>6, KeysAre
  <2>3. KeyOf(k) \in Int  BY KeysAre
  <2> QED  BY <1>1, <1>6, <1>8, <2>1, <2>2, <2>3
<1>9. \A k \in Int : KeyOf(k) <= i /\ i < KeyOf(k) + BlockSize => Base(i) = KeyOf(k)
  BY <1>7, <1>8
<1>10. Base(i) \in Nat /\ Base(i) <= i /\ i < Base(i) + BlockSize /\ Base(i) + r = i
  BY <1>1, <1>6, <1>7
<1> QED  BY <1>6, <1>7, <1>9, <1>10 DEF r, j

\* A slot behind the tail is a slot, and each slot is behind the tail once.
LEMMA SlotIs ==
    ASSUME NEW n \in Nat \ {0}, NEW h, h.tail \in 0 .. n - 1
    PROVE  /\ \A d \in 0 .. n - 1 : SlotAt(h, n, d) \in 0 .. n - 1
           /\ \A s \in 0 .. n - 1 : \E d \in 0 .. n - 1 : SlotAt(h, n, d) = s
           /\ SlotAt(h, n, 0) = h.tail
           /\ SlotAt(h, n, n - 1) = (h.tail + 1) % n
<1>1. \A d \in 0 .. n - 1 : SlotAt(h, n, d) \in 0 .. n - 1  BY DEF SlotAt
<1>2. ASSUME NEW s \in 0 .. n - 1
      PROVE  \E d \in 0 .. n - 1 : SlotAt(h, n, d) = s
  <2>1. CASE s <= h.tail
    <3>1. h.tail - s \in 0 .. n - 1 /\ SlotAt(h, n, h.tail - s) = s
      BY <2>1 DEF SlotAt
    <3> QED  BY <3>1
  <2>2. CASE s > h.tail
    <3>1. h.tail - s + n \in 0 .. n - 1 /\ SlotAt(h, n, h.tail - s + n) = s
      BY <2>2 DEF SlotAt
    <3> QED  BY <3>1
  <2> QED  BY <2>1, <2>2
<1>3. SlotAt(h, n, 0) = h.tail  BY DEF SlotAt
<1>4. SlotAt(h, n, n - 1) = IF h.tail = n - 1 THEN 0 ELSE h.tail + 1  BY DEF SlotAt
<1>5. (h.tail + 1) % n = IF h.tail = n - 1 THEN 0 ELSE h.tail + 1  BY NextSlot
<1> QED  BY <1>1, <1>2, <1>3, <1>4, <1>5

\* Each slot is in the view once.
LEMMA ViewSlot ==
    ASSUME NEW n \in Nat, NEW N \in Nat, NEW h, HeaderOK(h, n, N), NEW s \in 0 .. n - 1
    PROVE  \E d \in 0 .. n - 1 : SlotAt(h, n, d) = s /\ View(h, n)[d] = h.index[s]
<1>1. n \in Nat \ {0} /\ h.index \in [0 .. n - 1 -> 1 .. N] /\ h.tail \in 0 .. n - 1
  BY DEF HeaderOK
<1>2. /\ \A d \in 0 .. n - 1 : SlotAt(h, n, d) \in 0 .. n - 1
      /\ \A r \in 0 .. n - 1 : \E d \in 0 .. n - 1 : SlotAt(h, n, d) = r
      /\ SlotAt(h, n, 0) = h.tail
      /\ SlotAt(h, n, n - 1) = (h.tail + 1) % n
  BY <1>1, SlotIs
<1>3. PICK d \in 0 .. n - 1 : SlotAt(h, n, d) = s  BY <1>2
<1>4. View(h, n)[d] = h.index[s]  BY <1>3 DEF View
<1> QED  BY <1>3, <1>4

\* The first of the view is at the tail, and the last one behind it.
LEMMA ViewFirst ==
    ASSUME NEW n \in Nat, NEW N \in Nat, NEW h, HeaderOK(h, n, N)
    PROVE  /\ View(h, n)[0] = h.index[h.tail] /\ View(h, n) \in [0 .. n - 1 -> 1 .. N]
           /\ View(h, n)[n - 1] = h.index[(h.tail + 1) % n]
<1>1. n \in Nat \ {0} /\ h.index \in [0 .. n - 1 -> 1 .. N] /\ h.tail \in 0 .. n - 1
  BY DEF HeaderOK
<1>2. /\ \A d \in 0 .. n - 1 : SlotAt(h, n, d) \in 0 .. n - 1
      /\ \A r \in 0 .. n - 1 : \E d \in 0 .. n - 1 : SlotAt(h, n, d) = r
      /\ SlotAt(h, n, 0) = h.tail
      /\ SlotAt(h, n, n - 1) = (h.tail + 1) % n
  BY <1>1, SlotIs
<1>3. 0 \in 0 .. n - 1 /\ n - 1 \in 0 .. n - 1  BY <1>1
<1> QED  BY <1>1, <1>2, <1>3 DEF View

\* The tail goes on, and goes back.
Turned(h, n)     == [h EXCEPT !.tail = (h.tail + 1) % n]
TurnedBack(h, n) == [h EXCEPT !.tail = (h.tail - 1) % n]

\* The tail goes on: the entry that was behind it comes first.
LEMMA ViewTurns ==
    ASSUME NEW n \in Nat, NEW N \in Nat, NEW h, HeaderOK(h, n, N),
           NEW g, g = Turned(h, n)
    PROVE  /\ HeaderOK(g, n, N) /\ g.index = h.index
           /\ View(g, n)[0] = View(h, n)[n - 1]
           /\ \A d \in 1 .. n - 1 : View(g, n)[d] = View(h, n)[d - 1]
<1>1. /\ n \in Nat \ {0} /\ h.index \in [0 .. n - 1 -> 1 .. N] /\ h.tail \in 0 .. n - 1
      /\ h = [index |-> h.index, tail |-> h.tail]
  BY DEF HeaderOK
<1>2. (h.tail + 1) % n = IF h.tail = n - 1 THEN 0 ELSE h.tail + 1  BY <1>1, NextSlot
<1>3. /\ g = [index |-> h.index, tail |-> (h.tail + 1) % n]
      /\ g.index = h.index /\ g.tail = (h.tail + 1) % n
  BY <1>1 DEF Turned
<1>4. g.tail \in 0 .. n - 1
  <2>1. g.tail = IF h.tail = n - 1 THEN 0 ELSE h.tail + 1  BY <1>2, <1>3, Zenon
  <2> QED  BY <1>1, <2>1
<1>5. HeaderOK(g, n, N)  BY <1>1, <1>3, <1>4 DEF HeaderOK
<1>6. View(g, n)[0] = View(h, n)[n - 1]
  <2>1. View(h, n)[n - 1] = h.index[(h.tail + 1) % n]  BY ViewFirst
  <2>2. View(g, n)[0] = g.index[g.tail]
    <3>1. 0 \in 0 .. n - 1 /\ SlotAt(g, n, 0) = g.tail  BY <1>1, <1>4 DEF SlotAt
    <3> QED  BY <3>1 DEF View
  <2> QED  BY <1>3, <2>1, <2>2
<1>7. ASSUME NEW d \in 1 .. n - 1 PROVE SlotAt(g, n, d) = SlotAt(h, n, d - 1)
  BY <1>1, <1>2, <1>3 DEF SlotAt
<1>8. \A d \in 1 .. n - 1 : d \in 0 .. n - 1 /\ d - 1 \in 0 .. n - 1  BY <1>1
<1>9. \A d \in 1 .. n - 1 : View(g, n)[d] = View(h, n)[d - 1]
  BY <1>3, <1>7, <1>8 DEF View
<1> QED  BY <1>3, <1>5, <1>6, <1>9

\* The tail goes back: the first entry is behind it again.
LEMMA ViewTurnsBack ==
    ASSUME NEW n \in Nat, NEW N \in Nat, NEW h, HeaderOK(h, n, N),
           NEW g, g = TurnedBack(h, n)
    PROVE  /\ HeaderOK(g, n, N) /\ g.index = h.index
           /\ View(g, n)[n - 1] = View(h, n)[0]
           /\ \A d \in 1 .. n - 1 : View(g, n)[d - 1] = View(h, n)[d]
<1>1. /\ n \in Nat \ {0} /\ h.index \in [0 .. n - 1 -> 1 .. N] /\ h.tail \in 0 .. n - 1
      /\ h = [index |-> h.index, tail |-> h.tail]
  BY DEF HeaderOK
<1>2. (h.tail - 1) % n = IF h.tail = 0 THEN n - 1 ELSE h.tail - 1  BY <1>1, NextSlot
<1>3. /\ g = [index |-> h.index, tail |-> (h.tail - 1) % n]
      /\ g.index = h.index /\ g.tail = (h.tail - 1) % n
  BY <1>1 DEF TurnedBack
<1>4. g.tail \in 0 .. n - 1
  <2>1. g.tail = IF h.tail = 0 THEN n - 1 ELSE h.tail - 1  BY <1>2, <1>3, Zenon
  <2> QED  BY <1>1, <2>1
<1>5. HeaderOK(g, n, N)  BY <1>1, <1>3, <1>4 DEF HeaderOK
<1>6. SlotAt(g, n, n - 1) = h.tail /\ SlotAt(h, n, 0) = h.tail
  <2>1. g.tail = IF h.tail = 0 THEN n - 1 ELSE h.tail - 1  BY <1>2, <1>3
  <2> QED  BY <1>1, <2>1 DEF SlotAt
<1>7. ASSUME NEW d \in 1 .. n - 1 PROVE SlotAt(g, n, d - 1) = SlotAt(h, n, d)
  BY <1>1, <1>2, <1>3 DEF SlotAt
<1>8. \A d \in 1 .. n - 1 : d \in 0 .. n - 1 /\ d - 1 \in 0 .. n - 1  BY <1>1
<1>9. \A d \in 1 .. n - 1 : View(g, n)[d - 1] = View(h, n)[d]
  BY <1>3, <1>7, <1>8 DEF View
<1>10. 0 \in 0 .. n - 1 /\ n - 1 \in 0 .. n - 1  BY <1>1
<1>11. View(g, n)[n - 1] = View(h, n)[0]  BY <1>3, <1>6, <1>10 DEF View
<1> QED  BY <1>3, <1>5, <1>9, <1>11

\* A table of twice the size: behind the old entries, in their order, come new ones.
Doubled(h, n) ==
    [index |-> [i \in 0 .. 2 * n - 1 |->
                  IF i < n THEN h.index[(h.tail + 1 + i) % n] ELSE n + i - n + 1],
     tail  |-> n - 1]

\* The old entries come first, and the next one is new.
LEMMA ViewDoubles ==
    ASSUME NEW n \in Nat, NEW h, HeaderOK(h, n, n)
    PROVE  /\ HeaderOK(Doubled(h, n), 2 * n, 2 * n)
           /\ \A d \in 0 .. n - 1 : View(Doubled(h, n), 2 * n)[d] = View(h, n)[d]
           /\ \A d \in n .. 2 * n - 1 : View(Doubled(h, n), 2 * n)[d] = 3 * n - d
<1> DEFINE g == Doubled(h, n)
<1>1. /\ n \in Nat \ {0} /\ h.index \in [0 .. n - 1 -> 1 .. n] /\ h.tail \in 0 .. n - 1
  BY DEF HeaderOK
<1>2. /\ g.tail = n - 1 /\ g = [index |-> g.index, tail |-> g.tail]
      /\ DOMAIN g.index = 0 .. 2 * n - 1
      /\ g.index = [i \in 0 .. 2 * n - 1 |-> g.index[i]]
      /\ \A i \in 0 .. n - 1 : g.index[i] = h.index[(h.tail + 1 + i) % n]
      /\ \A i \in n .. 2 * n - 1 : g.index[i] = i + 1
  <2> DEFINE f == [i \in 0 .. 2 * n - 1 |->
                      IF i < n THEN h.index[(h.tail + 1 + i) % n] ELSE n + i - n + 1]
  <2>1. g = [index |-> f, tail |-> n - 1]  BY DEF Doubled
  <2>2. \A i \in 0 .. n - 1 : i \in 0 .. 2 * n - 1 /\ i < n  BY <1>1
  <2>3. \A i \in n .. 2 * n - 1 : i \in 0 .. 2 * n - 1 /\ ~(i < n) /\ n + i - n + 1 = i + 1
    BY <1>1
  <2>4. \A i \in 0 .. n - 1 : f[i] = h.index[(h.tail + 1 + i) % n]  BY <2>2
  <2>5. \A i \in n .. 2 * n - 1 : f[i] = i + 1  BY <2>3
  <2>6. DOMAIN f = 0 .. 2 * n - 1 /\ f = [i \in 0 .. 2 * n - 1 |-> f[i]]  OBVIOUS
  <2> HIDE DEF f
  <2>7. g.index = f /\ g.tail = n - 1 /\ g = [index |-> g.index, tail |-> g.tail]
    BY <2>1
  <2> HIDE DEF g
  <2> QED  BY <2>4, <2>5, <2>6, <2>7
<1> HIDE DEF g
<1>3. ASSUME NEW d \in 0 .. n - 1
      PROVE  /\ n - 1 - d \in 0 .. n - 1
             /\ (h.tail + 1 + (n - 1 - d)) % n = SlotAt(h, n, d)
             /\ SlotAt(h, n, d) \in 0 .. n - 1
  <2>1. \A r \in 0 .. n - 1, k \in Int : (r + k * n) % n = r
    <3>1. n \in Nat /\ n > 0  BY <1>1
    <3> QED  BY <3>1, SlotOfTurns
  <2>2. SlotAt(h, n, d) \in 0 .. n - 1  BY <1>1, SlotIs
  <2>3. \/ h.tail + 1 + (n - 1 - d) = SlotAt(h, n, d) + 1 * n
        \/ h.tail + 1 + (n - 1 - d) = SlotAt(h, n, d) + 0 * n
    BY <1>1 DEF SlotAt
  <2>4. n - 1 - d \in 0 .. n - 1  BY <1>1
  <2>5. (SlotAt(h, n, d) + 1 * n) % n = SlotAt(h, n, d)  BY <2>1, <2>2
  <2>6. (SlotAt(h, n, d) + 0 * n) % n = SlotAt(h, n, d)  BY <2>1, <2>2
  <2> QED  BY <2>2, <2>3, <2>4, <2>5, <2>6
<1>4. \A i \in 0 .. n - 1 : g.index[i] \in 1 .. n
  <2> SUFFICES ASSUME NEW i \in 0 .. n - 1 PROVE g.index[i] \in 1 .. n  OBVIOUS
  <2>1. n - 1 - i \in 0 .. n - 1 /\ n - 1 - (n - 1 - i) = i  BY <1>1
  <2>2. (h.tail + 1 + i) % n \in 0 .. n - 1  BY <1>3, <2>1
  <2> QED  BY <1>1, <1>2, <2>2
<1>5. g.index \in [0 .. 2 * n - 1 -> 1 .. 2 * n]
  <2>1. \A i \in 0 .. 2 * n - 1 : i \in 0 .. n - 1 \/ i \in n .. 2 * n - 1  BY <1>1
  <2>2. \A i \in 0 .. 2 * n - 1 : g.index[i] \in 1 .. 2 * n
    <3> SUFFICES ASSUME NEW i \in 0 .. 2 * n - 1 PROVE g.index[i] \in 1 .. 2 * n
      OBVIOUS
    <3>1. CASE i \in 0 .. n - 1
      <4>1. g.index[i] \in 1 .. n  BY <1>4, <3>1
      <4> QED  BY <1>1, <4>1
    <3>2. CASE i \in n .. 2 * n - 1
      <4>1. g.index[i] = i + 1  BY <1>2, <3>2
      <4> QED  BY <1>1, <4>1
    <3> QED  BY <2>1, <3>1, <3>2
  <2> QED  BY <1>2, <2>2
<1>6. HeaderOK(g, 2 * n, 2 * n)
  <2>1. 2 * n \in Nat \ {0} /\ g.tail \in 0 .. 2 * n - 1  BY <1>1, <1>2
  <2> QED  BY <1>2, <1>5, <2>1 DEF HeaderOK
<1>7. ASSUME NEW d \in 0 .. n - 1 PROVE View(g, 2 * n)[d] = View(h, n)[d]
  <2>1. SlotAt(g, 2 * n, d) = n - 1 - d /\ d \in 0 .. 2 * n - 1
    BY <1>1, <1>2 DEF SlotAt
  <2>2. View(g, 2 * n)[d] = g.index[n - 1 - d]  BY <2>1 DEF View
  <2>3. g.index[n - 1 - d] = h.index[(h.tail + 1 + (n - 1 - d)) % n]  BY <1>2, <1>3
  <2> QED  BY <1>3, <2>2, <2>3 DEF View
<1>8. ASSUME NEW d \in n .. 2 * n - 1 PROVE View(g, 2 * n)[d] = 3 * n - d
  <2>1. /\ SlotAt(g, 2 * n, d) = 3 * n - 1 - d /\ d \in 0 .. 2 * n - 1
        /\ 3 * n - 1 - d \in n .. 2 * n - 1
    <3>1. ~(d <= g.tail) /\ d \in 0 .. 2 * n - 1  BY <1>1, <1>2
    <3>2. SlotAt(g, 2 * n, d) = g.tail - d + 2 * n  BY <3>1 DEF SlotAt
    <3> QED  BY <1>1, <1>2, <3>1, <3>2
  <2>2. View(g, 2 * n)[d] = g.index[3 * n - 1 - d]  BY <2>1 DEF View
  <2>3. g.index[3 * n - 1 - d] = (3 * n - 1 - d) + 1  BY <1>2, <2>1
  <2> QED  BY <1>1, <2>2, <2>3
<1> QED  BY <1>6, <1>7, <1>8 DEF g

\* An entry gets a key, or a block, or none.
WithKey(es, e, k)   == [es EXCEPT ![e].key = k]
WithValue(es, e, b) == [es EXCEPT ![e].value = b]

\* An entry gets a key.
LEMMA KeyChanges ==
    ASSUME NEW es \in Seq(Entry), NEW e \in 1 .. Len(es), NEW k \in Nat,
           NEW es2, es2 = WithKey(es, e, k)
    PROVE  /\ es2 \in Seq(Entry) /\ Len(es2) = Len(es)
           /\ es2[e].key = k /\ es2[e].value = es[e].value
           /\ \A f \in 1 .. Len(es) : f # e => es2[f] = es[f]
<1>1. DOMAIN es = 1 .. Len(es) /\ Len(es) \in Nat /\ es \in [1 .. Len(es) -> Entry]
  OBVIOUS
<1>2. es[e] \in Entry  BY <1>1
<1>3. PICK x : x = [es[e] EXCEPT !.key = k]  BY Zenon
<1>4. x \in Entry /\ x.key = k /\ x.value = es[e].value  BY <1>2, <1>3 DEF Entry
<1>5. es2 = [es EXCEPT ![e] = x]  BY <1>3 DEF WithKey
<1>6. es2 \in Seq(Entry)  BY <1>1, <1>4, <1>5
<1> QED  BY <1>1, <1>4, <1>5, <1>6

\* An entry gets a block, or none.
LEMMA ValueChanges ==
    ASSUME NEW es \in Seq(Entry), NEW e \in 1 .. Len(es), NEW b \in BlockOrNull,
           NEW es2, es2 = WithValue(es, e, b)
    PROVE  /\ es2 \in Seq(Entry) /\ Len(es2) = Len(es)
           /\ es2[e].value = b /\ es2[e].key = es[e].key
           /\ \A f \in 1 .. Len(es) : f # e => es2[f] = es[f]
<1>1. DOMAIN es = 1 .. Len(es) /\ Len(es) \in Nat /\ es \in [1 .. Len(es) -> Entry]
  OBVIOUS
<1>2. es[e] \in Entry  BY <1>1
<1>3. PICK x : x = [es[e] EXCEPT !.value = b]  BY Zenon
<1>4. x \in Entry /\ x.value = b /\ x.key = es[e].key  BY <1>2, <1>3 DEF Entry
<1>5. es2 = [es EXCEPT ![e] = x]  BY <1>3 DEF WithValue
<1>6. es2 \in Seq(Entry)  BY <1>1, <1>4, <1>5
<1> QED  BY <1>1, <1>4, <1>5, <1>6

\* The slots of a current header are of the last blocks, and those whole turns away.
LEMMA CurrentAligned ==
    ASSUME NEW es \in Seq(Entry), NEW h, NEW tail, NEW stage,
           CurrentOK(es, h, tail, stage)
    PROVE  Aligned(es, h, Len(es))
<1>0. PICK n \in Nat : n = Len(es)  OBVIOUS
<1>q. PICK q : q = View(h, n)
  OBVIOUS
<1>1. HeaderOK(h, n, n) /\ n \in Nat  BY <1>0 DEF CurrentOK
<1>2. PICK m \in Nat : QueueOK(es, q, n, m, stage)  BY <1>0, <1>q DEF CurrentOK
<1>3. n \in Nat \ {0} /\ h.tail \in 0 .. n - 1  BY <1>1 DEF HeaderOK
<1>4. \A d \in 0 .. n - 1 : Used(es, q[d]) =>
          es[q[d]].key = KeyOf(m - 1 - d) \/ (d = n - 1 /\ es[q[d]].key = KeyOf(m))
  BY <1>2 DEF QueueOK
<1>5. \A s \in 0 .. n - 1 : \E d \in 0 .. n - 1 : SlotAt(h, n, d) = s /\ q[d] = h.index[s]
  BY <1>1, <1>q, ViewSlot
<1>t. PICK x \in Int : x = h.tail
  BY <1>3
<1> DEFINE c == m - 1 - x
<1>6. ASSUME NEW s \in 0 .. n - 1, Used(es, h.index[s])
      PROVE  \E k \in Int : es[h.index[s]].key = KeyOf(s + c + k * n)
  <2>1. PICK d \in 0 .. n - 1 : SlotAt(h, n, d) = s /\ q[d] = h.index[s]  BY <1>5
  <2>2. es[h.index[s]].key = KeyOf(m - 1 - d) \/ (d = n - 1 /\ es[h.index[s]].key = KeyOf(m))
    BY <1>4, <1>6, <2>1
  <2>3. \/ s = h.tail - d
        \/ s = h.tail - d + n
    BY <2>1 DEF SlotAt
  <2>4. /\ s = h.tail - d => m - 1 - d = s + c + 0 * n
        /\ s = h.tail - d + n => m - 1 - d = s + c + (0 - 1) * n
        /\ s = h.tail - d /\ d = n - 1 => m = s + c + 1 * n
        /\ s = h.tail - d + n /\ d = n - 1 => m = s + c + 0 * n
    <3>1. n \in Int /\ m \in Int /\ s \in Int /\ d \in Int /\ x \in Int  BY <1>t
    <3>2. /\ s = x - d => m - 1 - d = s + c + 0 * n
          /\ s = x - d + n => m - 1 - d = s + c + (0 - 1) * n
      BY <3>1
    <3>3. /\ s = x - d /\ d = n - 1 => m = s + c + 1 * n
          /\ s = x - d + n /\ d = n - 1 => m = s + c + 0 * n
      BY <3>1
    <3> QED  BY <1>t, <3>2, <3>3
  <2>5. 0 \in Int /\ 1 \in Int /\ (0 - 1) \in Int  OBVIOUS
  <2> HIDE DEF c
  <2> QED  BY <2>2, <2>3, <2>4, <2>5
<1>7. c \in Int  BY <1>3
<1>8. \A s \in 0 .. n - 1 : Used(es, h.index[s]) =>
          \E k \in Int : es[h.index[s]].key = KeyOf(s + c + k * n)
  BY <1>6
<1> HIDE DEF c
<1>9. Aligned(es, h, n)  BY <1>7, <1>8 DEF Aligned
<1> QED  BY <1>0, <1>9

\* What holds of the entries of an index.
LEMMA IndexFacts ==
    ASSUME NEW es, NEW hs, NEW tail, NEW stage, IndexOK(es, hs, tail, stage)
    PROVE  /\ \A e \in 1 .. Len(es) : Valued(es, e) =>
                 /\ Used(es, e) /\ es[e].value \in Blocks
                 /\ \E j \in Nat : es[e].key = KeyOf(j)
                 /\ es[e].key < tail \/ (es[e].key = tail /\ stage = "linked")
                 /\ Used(es, hs[Len(hs)].index[hs[Len(hs)].tail])
           /\ \A e, f \in 1 .. Len(es) :
                 Valued(es, e) /\ Valued(es, f) /\ es[e].key = es[f].key => e = f
           /\ stage # "none" =>
                 LET e == hs[Len(hs)].index[hs[Len(hs)].tail] IN
                 /\ e \in 1 .. Len(es) /\ es[e].key = tail /\ Used(es, e)
                 /\ stage = "unlinked" => ~Valued(es, e)
<1>0. PICK h, n : h = hs[Len(hs)] /\ n = Len(es)  OBVIOUS
<1>q. PICK q : q = View(h, n)
  OBVIOUS
<1>1. /\ es \in Seq(Entry) /\ tail \in Nat /\ stage \in Stages /\ n \in Nat
      /\ HeaderOK(h, n, n) /\ Bijective(q, n)
  BY <1>0, <1>q DEF IndexOK, CurrentOK
<1>2. PICK m \in Nat : NextIs(m, tail, stage) /\ QueueOK(es, q, n, m, stage)
  BY <1>0, <1>q DEF IndexOK, CurrentOK
<1>3. n \in Nat \ {0}  BY <1>1 DEF HeaderOK
<1>4. q \in [0 .. n - 1 -> 1 .. n] /\ q[0] = h.index[h.tail]
  <2>1. q \in [0 .. n - 1 -> 1 .. n]
    <3>1. View(h, n) \in [0 .. n - 1 -> 1 .. n]  BY <1>1, ViewFirst
    <3> QED  BY <1>q, <3>1
  <2>2. q[0] = h.index[h.tail]
    <3>0. HeaderOK(h, n, n) /\ n \in Nat  BY <1>1
    <3>1. View(h, n)[0] = h.index[h.tail]  BY <3>0, ViewFirst
    <3> QED  BY <1>q, <3>1
  <2> QED  BY <2>1, <2>2
<1>5. /\ \A d \in 0 .. n - 1 : Used(es, q[d]) =>
            \/ es[q[d]].key = KeyOf(m - 1 - d)
            \/ d = n - 1 /\ stage = "none" /\ es[q[d]].key = KeyOf(m) /\ ~Valued(es, q[d])
      /\ \A d \in 0 .. n - 1 : Valued(es, q[d]) => Used(es, q[d])
      /\ \A d \in 0 .. n - 1 :
            Used(es, q[d]) /\ (d < n - 1 \/ Valued(es, q[d]) \/ stage # "none") =>
                \A c \in 0 .. d : Used(es, q[c])
      /\ stage # "none" => Used(es, q[0])
      /\ stage = "unlinked" => ~Valued(es, q[0])
  BY <1>2 DEF QueueOK
<1>6. \A e \in 1 .. n : \E d \in 0 .. n - 1 : q[d] = e  BY <1>1 DEF Bijective
<1>7. \A e \in 1 .. n : es[e].key \in Nat /\ es[e].value \in BlockOrNull
  <2>1. \A e \in 1 .. n : es[e] \in Entry  BY <1>0, <1>1
  <2> QED  BY <2>1 DEF Entry
<1>8. ASSUME NEW d \in 0 .. n - 1, Valued(es, q[d])
      PROVE  /\ Used(es, q[d]) /\ es[q[d]].value \in Blocks
             /\ es[q[d]].key = KeyOf(m - 1 - d) /\ m - 1 - d \in Nat
             /\ es[q[d]].key < tail \/ (es[q[d]].key = tail /\ stage = "linked")
             /\ Used(es, q[0])
  <2>1. Used(es, q[d]) /\ es[q[d]].key = KeyOf(m - 1 - d) /\ q[d] \in 1 .. n
    BY <1>4, <1>5, <1>8
  <2>2. es[q[d]].value \in Blocks  BY <1>7, <1>8, <2>1 DEF Valued, BlockOrNull
  <2>3. Used(es, q[0])
    <3>1. 0 \in 0 .. d  BY <1>3
    <3> QED  BY <1>5, <1>8, <2>1, <3>1
  <2>4. m - 1 - d \in Nat
    <3>1. m - 1 - d \in Int  BY <1>3
    <3>2. KeyOf(m - 1 - d) \in Nat  BY <1>7, <2>1
    <3>3. m - 1 - d < 0 => KeyOf(m - 1 - d) + BlockSize <= KeyOf(0)
      BY <3>1, KeysAre
    <3> QED  BY <3>1, <3>2, <3>3, KeysAre, SizesAre
  <2>5. KeyOf(m - 1 - d) + BlockSize <= KeyOf(m)  BY <2>4, KeysAre
  <2>6. /\ BlockSize \in Nat /\ BlockSize >= 2
        /\ KeyOf(m) \in Nat /\ KeyOf(m - 1 - d) \in Nat
    BY <2>4, KeysAre, SizesAre
  <2>7. CASE stage = "none"
    <3>1. KeyOf(m) < tail + BlockSize  BY <1>2, <2>7 DEF NextIs
    <3> QED  BY <1>1, <2>1, <2>2, <2>3, <2>4, <2>5, <2>6, <3>1
  <2>8. CASE stage = "linked"
    <3>1. KeyOf(m) = tail + BlockSize  BY <1>2, <2>8 DEF NextIs
    <3> QED  BY <1>1, <2>1, <2>2, <2>3, <2>4, <2>5, <2>6, <2>8, <3>1
  <2>9. CASE stage = "unlinked"
    <3>1. KeyOf(m) = tail + BlockSize  BY <1>2, <2>9 DEF NextIs
    <3>2. d # 0  BY <1>5, <1>8, <2>9
    <3>3. m - 1 \in Nat /\ m - 1 - d < m - 1 /\ (m - 1) + 1 = m  BY <1>3, <2>4, <3>2
    <3>4. KeyOf(m - 1 - d) + BlockSize <= KeyOf(m - 1) /\ KeyOf(m - 1) + BlockSize = KeyOf(m)
      BY <2>4, <3>3, KeysAre
    <3>5. KeyOf(m - 1) \in Nat  BY <3>3, KeysAre
    <3> QED  BY <1>1, <2>1, <2>2, <2>3, <2>4, <2>6, <3>1, <3>4, <3>5
  <2> QED  BY <1>1, <2>7, <2>8, <2>9 DEF Stages
<1>9. ASSUME NEW e \in 1 .. n, Valued(es, e)
      PROVE  /\ Used(es, e) /\ es[e].value \in Blocks
             /\ \E j \in Nat : es[e].key = KeyOf(j)
             /\ es[e].key < tail \/ (es[e].key = tail /\ stage = "linked")
             /\ Used(es, h.index[h.tail])
  <2>1. PICK d \in 0 .. n - 1 : q[d] = e  BY <1>6
  <2> QED  BY <1>4, <1>8, <1>9, <2>1
<1>10. ASSUME NEW e \in 1 .. n, NEW f \in 1 .. n,
              Valued(es, e), Valued(es, f), es[e].key = es[f].key
       PROVE  e = f
  <2>1. PICK d \in 0 .. n - 1 : q[d] = e  BY <1>6
  <2>2. PICK c \in 0 .. n - 1 : q[c] = f  BY <1>6
  <2>3. KeyOf(m - 1 - d) = KeyOf(m - 1 - c) /\ m - 1 - d \in Int /\ m - 1 - c \in Int
    <3>1. es[e].key = KeyOf(m - 1 - d) /\ m - 1 - d \in Nat  BY <1>8, <1>10, <2>1
    <3>2. es[f].key = KeyOf(m - 1 - c) /\ m - 1 - c \in Nat  BY <1>8, <1>10, <2>2
    <3>3. KeyOf(m - 1 - d) = KeyOf(m - 1 - c)  BY <1>10, <3>1, <3>2, Zenon
    <3> QED  BY <3>1, <3>2, <3>3
  <2>4. m - 1 - d = m - 1 - c  BY <2>3, KeysAre
  <2>5. d = c  BY <1>3, <2>4
  <2> QED  BY <2>1, <2>2, <2>5
<1>11. ASSUME stage # "none"
       PROVE  /\ q[0] \in 1 .. n /\ es[q[0]].key = tail /\ Used(es, q[0])
              /\ stage = "unlinked" => ~Valued(es, q[0])
  <2>1. 0 \in 0 .. n - 1 /\ m - 1 - 0 = m - 1 /\ m - 1 \in Int /\ (m - 1) + 1 = m
    BY <1>3
  <2>2. q[0] \in 1 .. n /\ Used(es, q[0]) /\ es[q[0]].key = KeyOf(m - 1)
    BY <1>4, <1>5, <1>11, <2>1
  <2>3. KeyOf(m) = tail + BlockSize  BY <1>2, <1>11 DEF NextIs
  <2>4. KeyOf(m) = KeyOf(m - 1) + BlockSize /\ KeyOf(m - 1) \in Int
    BY <2>1, KeysAre
  <2>5. KeyOf(m - 1) = tail  BY <1>1, <2>3, <2>4, SizesAre
  <2> QED  BY <1>5, <2>2, <2>5
<1> QED  BY <1>0, <1>4, <1>9, <1>10, <1>11

\* A replaced header stays in order while its entries keep their keys, and there
\* are as many entries, or so many times as many.
LEMMA ReplacedStays ==
    ASSUME NEW es, NEW es2, NEW h, NEW r \in Nat,
           Len(es) \in Nat, Len(es2) = r * Len(es), r > 0,
           \A e \in 1 .. Len(es) : Used(es, e) => es2[e].key = es[e].key,
           ReplacedOK(es, h)
    PROVE  ReplacedOK(es2, h)
<1>1. PICK n \in Nat, j \in Nat :
          /\ HeaderOK(h, n, Len(es)) /\ Len(es) = j * n
          /\ Aligned(es, h, n)
          /\ \A s \in 0 .. n - 1 : Used(es, h.index[s])
  BY DEF ReplacedOK
<1>2. /\ n \in Nat \ {0} /\ h.index \in [0 .. n - 1 -> 1 .. Len(es)] /\ h.tail \in 0 .. n - 1
      /\ h = [index |-> h.index, tail |-> h.tail]
  BY <1>1 DEF HeaderOK
<1>3. Len(es2) \in Nat /\ Len(es) <= Len(es2)
  <2>1. PICK N \in Nat : N = Len(es)  OBVIOUS
  <2>2. r * N \in Nat /\ N <= r * N  OBVIOUS
  <2> QED  BY <2>1, <2>2
<1>4. HeaderOK(h, n, Len(es2))
  <2>1. \A s \in 0 .. n - 1 : h.index[s] \in 1 .. Len(es)  BY <1>2
  <2>2. \A e \in 1 .. Len(es) : e \in 1 .. Len(es2)  BY <1>3
  <2>3. h.index \in [0 .. n - 1 -> 1 .. Len(es2)]  BY <1>2, <2>1, <2>2
  <2> QED  BY <1>2, <2>3 DEF HeaderOK
<1>5. \A s \in 0 .. n - 1 : es2[h.index[s]].key = es[h.index[s]].key  BY <1>1, <1>2
<1>6. \A s \in 0 .. n - 1 : Used(es2, h.index[s]) <=> Used(es, h.index[s])
  BY <1>5 DEF Used
<1>7. Aligned(es2, h, n)  BY <1>1, <1>5, <1>6 DEF Aligned
<1>8. Len(es2) = (r * j) * n /\ r * j \in Nat
  <2>1. r * (j * n) = (r * j) * n /\ r * j \in Nat  OBVIOUS
  <2> QED  BY <1>1, <2>1
<1> QED  BY <1>1, <1>4, <1>6, <1>7, <1>8 DEF ReplacedOK

\* x is whole turns of n on from i.
TurnsOn(i, x, n) == \E r \in Int : x = i + r * n

\* It does when one entry is used again, for a block that is whole turns on.
LEMMA ReplacedTurns ==
    ASSUME NEW es, NEW es2, NEW h, NEW e, NEW i \in Int, NEW x \in Int,
           Len(es) \in Nat, Len(es2) = Len(es), TurnsOn(i, x, Len(es)),
           \A f \in 1 .. Len(es) : f # e => es2[f].key = es[f].key,
           es[e].key = KeyOf(i), es2[e].key = KeyOf(x),
           ReplacedOK(es, h)
    PROVE  ReplacedOK(es2, h)
<1>r. PICK r \in Int : x = i + r * Len(es)
  BY DEF TurnsOn
<1>1. PICK n \in Nat, j \in Nat :
          /\ HeaderOK(h, n, Len(es)) /\ Len(es) = j * n
          /\ Aligned(es, h, n)
          /\ \A s \in 0 .. n - 1 : Used(es, h.index[s])
  BY DEF ReplacedOK
<1>2. n \in Nat \ {0} /\ h.index \in [0 .. n - 1 -> 1 .. Len(es)]
  BY <1>1 DEF HeaderOK
<1>3. PICK c \in Int : \A s \in 0 .. n - 1 :
          \E k \in Int : es[h.index[s]].key = KeyOf(s + c + k * n)
  BY <1>1 DEF Aligned
<1>4. ASSUME NEW s \in 0 .. n - 1
      PROVE  \E k \in Int : es2[h.index[s]].key = KeyOf(s + c + k * n)
  <2>1. PICK k \in Int : es[h.index[s]].key = KeyOf(s + c + k * n)  BY <1>3
  <2>2. CASE h.index[s] # e  BY <1>2, <2>1, <2>2
  <2>3. CASE h.index[s] = e
    <3>1. s + c + k * n \in Int  OBVIOUS
    <3>2. i = s + c + k * n  BY <2>1, <2>3, <3>1, KeysAre
    <3>3. i + r * (j * n) = s + c + (k + r * j) * n /\ k + r * j \in Int
      <4>1. r * (j * n) = (r * j) * n /\ (k + r * j) * n = k * n + (r * j) * n
        OBVIOUS
      <4>2. k * n \in Int /\ (r * j) * n \in Int /\ k + r * j \in Int  OBVIOUS
      <4> QED  BY <3>2, <4>1, <4>2
    <3>4. es2[h.index[s]].key = KeyOf(s + c + (k + r * j) * n)
      BY <1>r, <1>1, <2>3, <3>3
    <3> QED  BY <3>3, <3>4
  <2> QED  BY <2>2, <2>3
<1>5. Aligned(es2, h, n)  BY <1>4 DEF Aligned
<1>6. \A s \in 0 .. n - 1 : Used(es2, h.index[s])
  <2> SUFFICES ASSUME NEW s \in 0 .. n - 1 PROVE Used(es2, h.index[s])  OBVIOUS
  <2>1. PICK k \in Int : es2[h.index[s]].key = KeyOf(s + c + k * n)  BY <1>4
  <2>2. s + c + k * n \in Int  OBVIOUS
  <2> QED  BY <2>1, <2>2, KeysAre DEF Used
<1> QED  BY <1>1, <1>5, <1>6 DEF ReplacedOK

\* A block is taken out of the index.
LEMMA IndexClears ==
    ASSUME NEW es, NEW hs, NEW tail, NEW stage, IndexOK(es, hs, tail, stage),
           NEW e \in 1 .. Len(es), NEW es2, es2 = WithValue(es, e, Null)
    PROVE  IndexOK(es2, hs, tail, stage)
<1>0. PICK n, h, q : n = Len(es) /\ h = hs[Len(hs)] /\ q = View(h, n)  OBVIOUS
<1>1. /\ es \in Seq(Entry) /\ hs \in Seq(Headers) /\ Len(hs) > 0
      /\ tail \in Nat /\ stage \in Stages
      /\ n >= 2 /\ HeaderOK(h, n, n) /\ Bijective(q, n)
      /\ \A i \in 1 .. Len(hs) - 1 : ReplacedOK(es, hs[i])
  BY <1>0 DEF IndexOK, CurrentOK
<1>2. PICK m \in Nat : NextIs(m, tail, stage) /\ QueueOK(es, q, n, m, stage)
  BY <1>0 DEF IndexOK, CurrentOK
<1>3. /\ es2 \in Seq(Entry) /\ Len(es2) = n /\ n \in Nat
      /\ es2[e].key = es[e].key /\ es2[e].value = Null
      /\ \A f \in 1 .. n : f # e => es2[f] = es[f]
  <2>1. Null \in BlockOrNull /\ es \in Seq(Entry)  BY <1>1 DEF BlockOrNull
  <2>2. /\ es2 \in Seq(Entry) /\ Len(es2) = Len(es)
        /\ es2[e].value = Null /\ es2[e].key = es[e].key
        /\ \A f \in 1 .. Len(es) : f # e => es2[f] = es[f]
    BY <2>1, ValueChanges
  <2> QED  BY <1>0, <2>1, <2>2
<1>4. \A f \in 1 .. n : /\ es2[f].key = es[f].key
                        /\ Used(es2, f) <=> Used(es, f)
                        /\ Valued(es2, f) => Valued(es, f)
  BY <1>3 DEF Used, Valued
<1>5. \A d \in 0 .. n - 1 : q[d] \in 1 .. n
  <2>1. View(h, n) \in [0 .. n - 1 -> 1 .. n]  BY <1>1, <1>3, ViewFirst
  <2> QED  BY <1>0, <2>1
<1>6. \A d \in 0 .. n - 1 : \A c \in 0 .. d : c \in 0 .. n - 1  BY <1>3
<1>7. 0 \in 0 .. n - 1  BY <1>1, <1>3
<1>8. QueueOK(es2, q, n, m, stage)  BY <1>2, <1>4, <1>5, <1>6, <1>7 DEF QueueOK
<1>9. CurrentOK(es2, h, tail, stage)  BY <1>0, <1>1, <1>2, <1>3, <1>8 DEF CurrentOK
<1>10. ASSUME NEW i \in 1 .. Len(hs) - 1 PROVE ReplacedOK(es2, hs[i])
  <2>1. ReplacedOK(es, hs[i]) /\ Len(es) \in Nat /\ 1 \in Nat /\ 1 > 0 /\ Len(es2) = 1 * Len(es)
    BY <1>0, <1>1, <1>3
  <2>2. \A f \in 1 .. Len(es) : es2[f].key = es[f].key  BY <1>0, <1>4
  <2> QED  BY <2>1, <2>2, ReplacedStays
<1> QED  BY <1>0, <1>1, <1>3, <1>9, <1>10 DEF IndexOK

\* The entry at the tail.
TailEntry(h) == h.index[h.tail]

\* The block is in the index.
LEMMA IndexLinks ==
    ASSUME NEW es, NEW hs, NEW tail, IndexOK(es, hs, tail, "unlinked"),
           NEW e, e = TailEntry(hs[Len(hs)]),
           NEW b \in Blocks, NEW es2, es2 = WithValue(es, e, b)
    PROVE  IndexOK(es2, hs, tail, "linked") /\ e \in 1 .. Len(es)
<1>0. PICK n, h, q : n = Len(es) /\ h = hs[Len(hs)] /\ q = View(h, n)  OBVIOUS
<1>1. /\ es \in Seq(Entry) /\ hs \in Seq(Headers) /\ Len(hs) > 0
      /\ tail \in Nat /\ n \in Nat
      /\ n >= 2 /\ HeaderOK(h, n, n) /\ Bijective(q, n)
      /\ \A i \in 1 .. Len(hs) - 1 : ReplacedOK(es, hs[i])
  BY <1>0 DEF IndexOK, CurrentOK
<1>2. PICK m \in Nat : NextIs(m, tail, "unlinked") /\ QueueOK(es, q, n, m, "unlinked")
  BY <1>0 DEF IndexOK, CurrentOK
<1>5. (\A d \in 0 .. n - 1 : q[d] \in 1 .. n) /\ q[0] = e
  <2>1. View(h, n) \in [0 .. n - 1 -> 1 .. n] /\ View(h, n)[0] = h.index[h.tail]
    BY <1>1, ViewFirst
  <2> QED  BY <1>0, <2>1 DEF TailEntry
<1>7. 0 \in 0 .. n - 1  BY <1>1
<1>8. e \in 1 .. Len(es)  BY <1>0, <1>5, <1>7
<1>3. /\ es2 \in Seq(Entry) /\ Len(es2) = n
      /\ es2[e].key = es[e].key
      /\ \A f \in 1 .. n : f # e => es2[f] = es[f]
  <2>1. b \in BlockOrNull /\ es \in Seq(Entry)  BY <1>1 DEF BlockOrNull
  <2>2. /\ es2 \in Seq(Entry) /\ Len(es2) = Len(es)
        /\ es2[e].value = b /\ es2[e].key = es[e].key
        /\ \A f \in 1 .. Len(es) : f # e => es2[f] = es[f]
    BY <1>8, <2>1, ValueChanges
  <2> QED  BY <1>0, <2>1, <2>2
<1>4. \A f \in 1 .. n : /\ es2[f].key = es[f].key
                        /\ Used(es2, f) <=> Used(es, f)
                        /\ Valued(es2, f) => Valued(es, f) \/ f = e
  BY <1>3 DEF Used, Valued
<1>6. \A d \in 0 .. n - 1 : \A c \in 0 .. d : c \in 0 .. n - 1  BY <1>1
<1>9. QueueOK(es2, q, n, m, "linked")
  <2>1. /\ \A d \in 0 .. n - 1 : Used(es, q[d]) => es[q[d]].key = KeyOf(m - 1 - d)
        /\ \A d \in 0 .. n - 1 : Valued(es, q[d]) => Used(es, q[d])
        /\ \A d \in 0 .. n - 1 : Used(es, q[d]) => \A c \in 0 .. d : Used(es, q[c])
        /\ Used(es, q[0])
    BY <1>2 DEF QueueOK
  <2>2. \A d \in 0 .. n - 1 : Used(es2, q[d]) => es2[q[d]].key = KeyOf(m - 1 - d)
    BY <1>4, <1>5, <2>1
  <2>3. \A d \in 0 .. n - 1 : Valued(es2, q[d]) => Used(es2, q[d])
    BY <1>4, <1>5, <1>7, <2>1
  <2>4. \A d \in 0 .. n - 1 : Used(es2, q[d]) => \A c \in 0 .. d : Used(es2, q[c])
    BY <1>4, <1>5, <1>6, <2>1
  <2>5. Used(es2, q[0])  BY <1>4, <1>5, <1>7, <2>1
  <2> QED  BY <2>2, <2>3, <2>4, <2>5 DEF QueueOK
<1>10. NextIs(m, tail, "linked")  BY <1>2 DEF NextIs
<1>11. CurrentOK(es2, h, tail, "linked")
  BY <1>0, <1>1, <1>3, <1>9, <1>10 DEF CurrentOK
<1>12. ASSUME NEW i \in 1 .. Len(hs) - 1 PROVE ReplacedOK(es2, hs[i])
  <2>1. ReplacedOK(es, hs[i]) /\ Len(es) \in Nat /\ 1 \in Nat /\ 1 > 0 /\ Len(es2) = 1 * Len(es)
    BY <1>0, <1>1, <1>3
  <2>2. \A f \in 1 .. Len(es) : es2[f].key = es[f].key  BY <1>0, <1>4
  <2> QED  BY <2>1, <2>2, ReplacedStays
<1>13. "linked" \in Stages  BY DEF Stages
<1> QED  BY <1>0, <1>1, <1>3, <1>8, <1>11, <1>12, <1>13 DEF IndexOK

\* What an index is made of.
LEMMA IndexParts ==
    ASSUME NEW es, NEW hs, NEW tail, NEW stage, IndexOK(es, hs, tail, stage),
           NEW n \in Nat, n = Len(es), NEW h, h = hs[Len(hs)], NEW q, q = View(h, n)
    PROVE  /\ es \in Seq(Entry) /\ hs \in Seq(Headers) /\ Len(hs) > 0 /\ Len(hs) \in Nat
           /\ tail \in Nat /\ stage \in Stages /\ n \in Nat
           /\ n >= 2 /\ HeaderOK(h, n, n) /\ Bijective(q, n)
           /\ \A i \in 1 .. Len(hs) - 1 : ReplacedOK(es, hs[i])
           /\ q[0] = h.index[h.tail] /\ q \in [0 .. n - 1 -> 1 .. n]
           /\ q[n - 1] = h.index[(h.tail + 1) % n]
<1>1. /\ es \in Seq(Entry) /\ hs \in Seq(Headers) /\ Len(hs) > 0 /\ Len(hs) \in Nat
      /\ tail \in Nat /\ stage \in Stages /\ n \in Nat
      /\ n >= 2 /\ HeaderOK(h, n, n) /\ Bijective(q, n)
      /\ \A i \in 1 .. Len(hs) - 1 : ReplacedOK(es, hs[i])
  BY DEF IndexOK, CurrentOK
<1>2. View(h, n) \in [0 .. n - 1 -> 1 .. n] /\ View(h, n)[0] = h.index[h.tail]
  BY <1>1, ViewFirst
<1>3. View(h, n)[n - 1] = h.index[(h.tail + 1) % n]
  <2>1. HeaderOK(h, n, n) /\ n \in Nat  BY <1>1
  <2> QED  BY <2>1, ViewFirst
<1> QED  BY <1>1, <1>2, <1>3

\* There is a block that is the next one.
LEMMA IndexMth ==
    ASSUME NEW es, NEW hs, NEW tail, NEW stage, IndexOK(es, hs, tail, stage),
           NEW n \in Nat, n = Len(es), NEW h, h = hs[Len(hs)], NEW q, q = View(h, n)
    PROVE  \E m \in Nat : NextIs(m, tail, stage) /\ QueueOK(es, q, n, m, stage)
BY DEF IndexOK, CurrentOK

\* The tail goes on by an element.
LEMMA IndexStores ==
    ASSUME NEW es, NEW hs, NEW tail, NEW stage, IndexOK(es, hs, tail, stage),
           stage = "linked" \/ (stage = "none" /\ tail % BlockSize # 0)
    PROVE  IndexOK(es, hs, tail + 1, "none")
<1>0. PICK n, h, q : n \in Nat /\ n = Len(es) /\ h = hs[Len(hs)] /\ q = View(h, n)
  BY DEF IndexOK
<1>1. /\ es \in Seq(Entry) /\ hs \in Seq(Headers) /\ Len(hs) > 0
      /\ tail \in Nat /\ n \in Nat
      /\ n >= 2 /\ HeaderOK(h, n, n) /\ Bijective(q, n)
      /\ \A i \in 1 .. Len(hs) - 1 : ReplacedOK(es, hs[i])
  BY <1>0, IndexParts
<1>2. PICK m \in Nat : NextIs(m, tail, stage) /\ QueueOK(es, q, n, m, stage)
  BY <1>0, IndexMth
<1>3. QueueOK(es, q, n, m, "none")  BY <1>2 DEF QueueOK
<1>4. KeyOf(m) \in Nat /\ BlockSize \in Nat /\ BlockSize >= 2  BY KeysAre, SizesAre
<1>5. NextIs(m, tail + 1, "none")
  <2>1. CASE stage = "linked"  BY <1>1, <1>2, <1>4, <2>1 DEF NextIs
  <2>2. CASE stage = "none" /\ tail % BlockSize # 0
    <3>1. tail <= KeyOf(m) /\ KeyOf(m) < tail + BlockSize  BY <1>2, <2>2 DEF NextIs
    <3>2. KeyOf(m) # tail
      <4>1. Base(tail) + (tail % BlockSize) = tail /\ Base(tail) \in Nat
            /\ (KeyOf(m) <= tail /\ tail < KeyOf(m) + BlockSize => Base(tail) = KeyOf(m))
            /\ tail % BlockSize \in 0 .. BlockSize - 1
        BY <1>1, BaseIs
      <4>2. PICK r \in Nat : r = tail % BlockSize  BY <4>1
      <4> QED  BY <1>1, <1>4, <2>2, <4>1, <4>2
    <3> QED  BY <1>1, <1>4, <3>1, <3>2 DEF NextIs
  <2> QED  BY <2>1, <2>2
<1>6. CurrentOK(es, h, tail + 1, "none")  BY <1>0, <1>1, <1>3, <1>5 DEF CurrentOK
<1>7. tail + 1 \in Nat /\ "none" \in Stages  BY <1>1 DEF Stages
<1> QED  BY <1>0, <1>1, <1>6, <1>7 DEF IndexOK

\* A sequence of headers whose last one is another.
WithLast(hs, g) == [hs EXCEPT ![Len(hs)] = g]

\* The others stay.
LEMMA LastHeader ==
    ASSUME NEW l \in Nat, l > 0, NEW hs \in [1 .. l -> Headers], NEW g \in Headers
    PROVE  /\ WithLast(hs, g) \in [1 .. l -> Headers]
           /\ WithLast(hs, g)[l] = g
           /\ \A i \in 1 .. l - 1 : WithLast(hs, g)[i] = hs[i]
<1>2. hs \in Seq(Headers) /\ Len(hs) = l /\ l \in 1 .. l  OBVIOUS
<1>3. WithLast(hs, g) = [hs EXCEPT ![l] = g]  BY <1>2 DEF WithLast
<1>4. WithLast(hs, g) \in [1 .. l -> Headers]  BY <1>2, <1>3
<1>5. WithLast(hs, g)[l] = g  BY <1>2, <1>3
<1>6. ASSUME NEW i \in 1 .. l - 1 PROVE WithLast(hs, g)[i] = hs[i]
  <2>1. i \in 1 .. l /\ i # l  OBVIOUS
  <2> QED  BY <1>2, <1>3, <2>1
<1> QED  BY <1>4, <1>5, <1>6

\* A header that is in order is one.
LEMMA HeaderIs ==
    ASSUME NEW h, NEW n \in Nat, NEW N \in Nat, HeaderOK(h, n, N)
    PROVE  h \in Headers
<1>1. /\ n \in Nat \ {0} /\ h.index \in [0 .. n - 1 -> 1 .. N] /\ h.tail \in 0 .. n - 1
      /\ h = [index |-> h.index, tail |-> h.tail]
  BY DEF HeaderOK
<1>2. h.index \in [0 .. n - 1 -> Nat] /\ h.tail \in Nat  BY <1>1
<1>3. h.index \in UNION {[0 .. k - 1 -> Nat] : k \in Nat}  BY <1>1, <1>2
<1> QED  BY <1>1, <1>2, <1>3 DEF Headers

\* The entry is given back, for want of memory.
LEMMA IndexRewinds ==
    ASSUME NEW es, NEW hs, NEW tail, IndexOK(es, hs, tail, "unlinked"),
           NEW hs2, hs2 = WithLast(hs, TurnedBack(hs[Len(hs)], Len(es)))
    PROVE  /\ IndexOK(es, hs2, tail, "none") /\ Len(hs2) = Len(hs)
           /\ \A i \in 1 .. Len(hs) : hs2[i].index = hs[i].index
<1>0. PICK n, h, q, g, u :
          /\ n = Len(es) /\ h = hs[Len(hs)] /\ q = View(h, n)
          /\ g = TurnedBack(h, n) /\ u = View(g, n)
  OBVIOUS
<1>1. /\ es \in Seq(Entry) /\ hs \in Seq(Headers) /\ Len(hs) > 0 /\ Len(hs) \in Nat
      /\ tail \in Nat /\ n \in Nat
      /\ n >= 2 /\ HeaderOK(h, n, n) /\ Bijective(q, n)
      /\ \A i \in 1 .. Len(hs) - 1 : ReplacedOK(es, hs[i])
      /\ q \in [0 .. n - 1 -> 1 .. n]
  BY <1>0, IndexParts
<1>2. PICK m \in Nat : NextIs(m, tail, "unlinked") /\ QueueOK(es, q, n, m, "unlinked")
  BY <1>0, IndexMth
<1>3. /\ HeaderOK(g, n, n) /\ g.index = h.index
      /\ View(g, n)[n - 1] = View(h, n)[0]
      /\ \A d \in 1 .. n - 1 : View(g, n)[d - 1] = View(h, n)[d]
  <2>1. g = TurnedBack(h, n)  BY <1>0
  <2>2. HeaderOK(h, n, n) /\ n \in Nat  BY <1>1
  <2>3. HeaderOK(g, n, n) /\ g.index = h.index  BY <2>1, <2>2, ViewTurnsBack
  <2>4. View(g, n)[n - 1] = View(h, n)[0]  BY <2>1, <2>2, ViewTurnsBack
  <2>5. ASSUME NEW d \in 1 .. n - 1 PROVE View(g, n)[d - 1] = View(h, n)[d]
    BY <2>1, <2>2, ViewTurnsBack
  <2> QED  BY <2>3, <2>4, <2>5
<1>4. u[n - 1] = q[0] /\ \A d \in 1 .. n - 1 : u[d - 1] = q[d]  BY <1>0, <1>3
<1>5. \A d \in 0 .. n - 2 : u[d] = q[d + 1]
  <2> SUFFICES ASSUME NEW d \in 0 .. n - 2 PROVE u[d] = q[d + 1]  OBVIOUS
  <2>1. d + 1 \in 1 .. n - 1 /\ (d + 1) - 1 = d  BY <1>1
  <2>2. u[(d + 1) - 1] = q[d + 1]  BY <1>4, <2>1
  <2> QED  BY <2>1, <2>2
<1>6. g \in Headers  BY <1>1, <1>3, HeaderIs
<1>7. /\ hs2 \in Seq(Headers) /\ Len(hs2) = Len(hs) /\ hs2[Len(hs2)] = g
      /\ \A i \in 1 .. Len(hs) - 1 : hs2[i] = hs[i]
  <2>1. hs2 = WithLast(hs, g)  BY <1>0
  <2>2. PICK l \in Nat : l = Len(hs) /\ l > 0  BY <1>1
  <2>3. hs \in [1 .. l -> Headers]  BY <1>1, <2>2
  <2>4. /\ WithLast(hs, g) \in [1 .. l -> Headers]
        /\ WithLast(hs, g)[l] = g
        /\ \A i \in 1 .. l - 1 : WithLast(hs, g)[i] = hs[i]
    BY <1>6, <2>2, <2>3, LastHeader
  <2> QED  BY <2>1, <2>2, <2>4
<1>8. /\ \A d \in 0 .. n - 1 : Used(es, q[d]) => es[q[d]].key = KeyOf(m - 1 - d)
      /\ \A d \in 0 .. n - 1 : Valued(es, q[d]) => Used(es, q[d])
      /\ \A d \in 0 .. n - 1 : Used(es, q[d]) => \A c \in 0 .. d : Used(es, q[c])
      /\ Used(es, q[0]) /\ ~Valued(es, q[0])
  BY <1>2 DEF QueueOK
<1>9. \A d \in 0 .. n - 1 : \/ d \in 0 .. n - 2 /\ d + 1 \in 0 .. n - 1 /\ d < n - 1
                            \/ d = n - 1 /\ d \notin 0 .. n - 2
  BY <1>1
<1>10. KeyOf(m) = tail + BlockSize /\ m - 1 \in Nat /\ KeyOf(m - 1) = tail
  <2>1. KeyOf(m) = tail + BlockSize /\ BlockSize \in Nat /\ BlockSize >= 2
    BY <1>2, SizesAre DEF NextIs
  <2>2. m # 0  BY <1>1, <2>1, KeysAre
  <2>3. m - 1 \in Nat /\ (m - 1) + 1 = m  BY <2>2
  <2>4. KeyOf(m) = KeyOf(m - 1) + BlockSize /\ KeyOf(m - 1) \in Nat
    <3>1. m - 1 \in Int  OBVIOUS
    <3>2. KeyOf((m - 1) + 1) = KeyOf(m - 1) + BlockSize  BY <3>1, KeysAre
    <3> QED  BY <2>3, <3>2, KeysAre
  <2> QED  BY <1>1, <2>1, <2>3, <2>4
<1>11. NextIs(m - 1, tail, "none")  BY <1>1, <1>10, SizesAre DEF NextIs
<1>12. 0 \in 0 .. n - 1 /\ n - 1 \in 0 .. n - 1  BY <1>1
<1>13. QueueOK(es, u, n, m - 1, "none")
  <2>1. ASSUME NEW d \in 0 .. n - 1, Used(es, u[d])
        PROVE  \/ es[u[d]].key = KeyOf((m - 1) - 1 - d)
               \/ d = n - 1 /\ es[u[d]].key = KeyOf(m - 1) /\ ~Valued(es, u[d])
    <3>1. CASE d \in 0 .. n - 2 /\ d + 1 \in 0 .. n - 1
      <4>1. es[q[d + 1]].key = KeyOf(m - 1 - (d + 1))  BY <1>5, <1>8, <2>1, <3>1
      <4>2. m - 1 - (d + 1) = (m - 1) - 1 - d  OBVIOUS
      <4> QED  BY <1>5, <3>1, <4>1, <4>2
    <3>2. CASE d = n - 1
      <4>1. es[q[0]].key = KeyOf(m - 1 - 0)  BY <1>8, <1>12
      <4>2. m - 1 - 0 = m - 1  OBVIOUS
      <4> QED  BY <1>4, <1>8, <3>2, <4>1, <4>2
    <3> QED  BY <1>9, <3>1, <3>2
  <2>2. ASSUME NEW d \in 0 .. n - 1, Valued(es, u[d]) PROVE Used(es, u[d])
    BY <1>4, <1>5, <1>8, <1>9, <2>2
  <2>3. ASSUME NEW d \in 0 .. n - 1, Used(es, u[d]), d < n - 1 \/ Valued(es, u[d]),
               NEW c \in 0 .. d
        PROVE  Used(es, u[c])
    <3>1. d \in 0 .. n - 2 /\ d + 1 \in 0 .. n - 1  BY <1>4, <1>8, <1>9, <2>3
    <3>2. c \in 0 .. n - 2 /\ c + 1 \in 0 .. d + 1  BY <1>1, <3>1
    <3>3. Used(es, q[d + 1])  BY <1>5, <2>3, <3>1
    <3> QED  BY <1>5, <1>8, <3>1, <3>2, <3>3
  <2> QED  BY <2>1, <2>2, <2>3 DEF QueueOK
<1>14. Bijective(u, n)
  <2>1. /\ \A c, d \in 0 .. n - 1 : q[c] = q[d] => c = d
        /\ \A e \in 1 .. n : \E d \in 0 .. n - 1 : q[d] = e
    BY <1>1 DEF Bijective
  <2>2. ASSUME NEW c \in 0 .. n - 1, NEW d \in 0 .. n - 1, u[c] = u[d] PROVE c = d
    <3>1. CASE c \in 0 .. n - 2 /\ d \in 0 .. n - 2
      <4>1. c + 1 \in 0 .. n - 1 /\ d + 1 \in 0 .. n - 1 /\ q[c + 1] = q[d + 1]
        BY <1>1, <1>5, <2>2, <3>1
      <4>2. c + 1 = d + 1  BY <2>1, <4>1
      <4> QED  BY <4>2
    <3>2. CASE c \in 0 .. n - 2 /\ d = n - 1
      <4>1. c + 1 \in 0 .. n - 1 /\ q[c + 1] = q[0]  BY <1>1, <1>4, <1>5, <2>2, <3>2
      <4>2. c + 1 = 0  BY <1>12, <2>1, <4>1
      <4> QED  BY <4>2
    <3>3. CASE d \in 0 .. n - 2 /\ c = n - 1
      <4>1. d + 1 \in 0 .. n - 1 /\ q[d + 1] = q[0]  BY <1>1, <1>4, <1>5, <2>2, <3>3
      <4>2. d + 1 = 0  BY <1>12, <2>1, <4>1
      <4> QED  BY <4>2
    <3>4. CASE c = n - 1 /\ d = n - 1  BY <3>4
    <3> QED  BY <1>9, <3>1, <3>2, <3>3, <3>4
  <2>3. ASSUME NEW e \in 1 .. n PROVE \E d \in 0 .. n - 1 : u[d] = e
    <3>1. PICK d \in 0 .. n - 1 : q[d] = e  BY <2>1
    <3>2. CASE d = 0  BY <1>4, <1>12, <3>1, <3>2
    <3>3. CASE d # 0
      <4>1. d \in 1 .. n - 1 /\ d - 1 \in 0 .. n - 1  BY <1>1, <3>3
      <4> QED  BY <1>4, <3>1, <4>1
    <3> QED  BY <3>2, <3>3
  <2> QED  BY <2>2, <2>3 DEF Bijective
<1>15. CurrentOK(es, g, tail, "none")
  BY <1>0, <1>1, <1>3, <1>10, <1>11, <1>13, <1>14 DEF CurrentOK
<1>16. \A i \in 1 .. Len(hs) - 1 : ReplacedOK(es, hs2[i])  BY <1>1, <1>7
<1>17. "none" \in Stages  BY DEF Stages
<1>18. IndexOK(es, hs2, tail, "none")
  BY <1>1, <1>7, <1>15, <1>16, <1>17 DEF IndexOK
<1>19. ASSUME NEW i \in 1 .. Len(hs) PROVE hs2[i].index = hs[i].index
  <2>1. i = Len(hs) \/ i \in 1 .. Len(hs) - 1  BY <1>1
  <2> QED  BY <1>0, <1>3, <1>7, <2>1
<1> QED  BY <1>7, <1>18, <1>19

\* The index is the first one of a block.
Begins(i) == i % BlockSize = 0

\* The entry that is behind the tail.
EntryBehind(h, n) == h.index[(h.tail + 1) % n]

\* It is the last one of the view.
LEMMA ViewLast ==
    ASSUME NEW n \in Nat, NEW N \in Nat, NEW h, HeaderOK(h, n, N)
    PROVE  View(h, n)[n - 1] = EntryBehind(h, n)
BY ViewFirst DEF EntryBehind

\* An element that begins a block has its key.
LEMMA BeginsKey ==
    ASSUME NEW i \in Nat, Begins(i)
    PROVE  \E j \in Nat : i = KeyOf(j)
<1>1. Base(i) = KeyOf(i \div BlockSize) /\ i \div BlockSize \in Nat  BY BaseIs
<1>2. Base(i) = i  BY DEF Base, Begins
<1> QED  BY <1>1, <1>2

\* An entry is put into the index, behind the tail.
LEMMA IndexInserts ==
    ASSUME NEW es, NEW hs, NEW tail, IndexOK(es, hs, tail, "none"), Begins(tail),
           NEW e, e = EntryBehind(hs[Len(hs)], Len(es)),
           ~Used(es, e) \/ ~Valued(es, e),
           NEW es2, es2 = WithKey(es, e, tail),
           NEW hs2, hs2 = WithLast(hs, Turned(hs[Len(hs)], Len(es)))
    PROVE  /\ IndexOK(es2, hs2, tail, "unlinked") /\ Len(hs2) = Len(hs)
           /\ \A i \in 1 .. Len(hs) : hs2[i].index = hs[i].index
           /\ e \in 1 .. Len(es) /\ ~Valued(es, e)
           /\ TailEntry(hs2[Len(hs2)]) = e
<1>l. PICK n \in Nat : n = Len(es)
  <2>1. Len(es) \in Nat  BY DEF IndexOK
  <2> QED  BY <2>1
<1>0. PICK h, q, g, u :
          /\ n = Len(es) /\ h = hs[Len(hs)] /\ q = View(h, n)
          /\ g = Turned(h, n) /\ u = View(g, n)
  BY <1>l
<1>1. /\ es \in Seq(Entry) /\ hs \in Seq(Headers) /\ Len(hs) > 0 /\ Len(hs) \in Nat
      /\ tail \in Nat
      /\ n >= 2 /\ HeaderOK(h, n, n) /\ Bijective(q, n)
      /\ \A i \in 1 .. Len(hs) - 1 : ReplacedOK(es, hs[i])
      /\ q \in [0 .. n - 1 -> 1 .. n]
  BY <1>0, IndexParts
<1>v. q[n - 1] = e
  <2>1. HeaderOK(h, n, n)  BY <1>1
  <2>2. View(h, n)[n - 1] = EntryBehind(h, n)  BY <2>1, ViewLast
  <2> QED  BY <1>0, <2>2
<1>2. PICK m \in Nat : NextIs(m, tail, "none") /\ QueueOK(es, q, n, m, "none")
  BY <1>0, IndexMth
<1>3. /\ HeaderOK(g, n, n) /\ g.index = h.index
      /\ View(g, n)[0] = View(h, n)[n - 1]
      /\ \A d \in 1 .. n - 1 : View(g, n)[d] = View(h, n)[d - 1]
  <2>1. HeaderOK(h, n, n) /\ g = Turned(h, n)  BY <1>0, <1>1
  <2> QED  BY <2>1, ViewTurns
<1>4. u[0] = q[n - 1] /\ q[n - 1] = e /\ \A d \in 1 .. n - 1 : u[d] = q[d - 1]
  BY <1>0, <1>v, <1>3
<1>5. \A d \in 0 .. n - 1 : d = 0 \/ (d \in 1 .. n - 1 /\ d - 1 \in 0 .. n - 1 /\ d - 1 < n - 1)
  BY <1>1
<1>6. 0 \in 0 .. n - 1 /\ n - 1 \in 0 .. n - 1 /\ e \in 1 .. n  BY <1>1, <1>4
<1>7. /\ \A d \in 0 .. n - 1 : Used(es, q[d]) =>
            es[q[d]].key = KeyOf(m - 1 - d) \/ (d = n - 1 /\ es[q[d]].key = KeyOf(m))
      /\ \A d \in 0 .. n - 1 : Valued(es, q[d]) => Used(es, q[d])
      /\ \A d \in 0 .. n - 1 : Used(es, q[d]) /\ d < n - 1 => \A c \in 0 .. d : Used(es, q[c])
  BY <1>2 DEF QueueOK
<1>8. ~Valued(es, e)  BY <1>4, <1>6, <1>7
<1>9. /\ es2 \in Seq(Entry) /\ Len(es2) = n
      /\ es2[e].key = tail /\ es2[e].value = es[e].value
      /\ \A f \in 1 .. n : f # e => es2[f] = es[f]
  <2>1. es \in Seq(Entry) /\ e \in 1 .. Len(es) /\ tail \in Nat  BY <1>0, <1>1, <1>6
  <2>2. /\ es2 \in Seq(Entry) /\ Len(es2) = Len(es)
        /\ es2[e].key = tail /\ es2[e].value = es[e].value
        /\ \A f \in 1 .. Len(es) : f # e => es2[f] = es[f]
    BY <2>1, KeyChanges
  <2> QED  BY <1>0, <2>2
<1>10. KeyOf(m) = tail /\ KeyOf(m + 1) = tail + BlockSize
  <2>1. /\ tail <= KeyOf(m) /\ KeyOf(m) < tail + BlockSize
        /\ KeyOf(m) \in Nat /\ KeyOf(m + 1) = KeyOf(m) + BlockSize
        /\ BlockSize \in Nat /\ BlockSize >= 2
    BY <1>2, KeysAre, SizesAre DEF NextIs
  <2>3. PICK j \in Nat : tail = KeyOf(j)  BY <1>1, BeginsKey
  <2>4. j < m => KeyOf(j) + BlockSize <= KeyOf(m)  BY KeysAre
  <2>5. m < j => KeyOf(m) + BlockSize <= KeyOf(j)  BY KeysAre
  <2>6. j = m  BY <1>1, <2>1, <2>3, <2>4, <2>5, SMTT(30)
  <2> QED  BY <2>1, <2>3, <2>6
<1>11. NextIs(m + 1, tail, "unlinked") /\ m + 1 \in Nat  BY <1>10 DEF NextIs
<1>12. Used(es2, e) /\ ~Valued(es2, e)
  <2>1. KeyOf(m) # NoKey  BY KeysAre
  <2> QED  BY <1>8, <1>9, <1>10, <2>1 DEF Used, Valued
<1>13. \A f \in 1 .. n : f # e => (Used(es2, f) <=> Used(es, f)) /\ (Valued(es2, f) <=> Valued(es, f))
  BY <1>9 DEF Used, Valued
<1>14. /\ \A c, d \in 0 .. n - 1 : q[c] = q[d] => c = d
       /\ \A f \in 1 .. n : \E d \in 0 .. n - 1 : q[d] = f
  BY <1>1 DEF Bijective
<1>15. \A d \in 1 .. n - 1 : /\ u[d] = q[d - 1] /\ d - 1 \in 0 .. n - 1 /\ d - 1 < n - 1
                             /\ u[d] # e /\ u[d] \in 1 .. n
  <2> SUFFICES ASSUME NEW d \in 1 .. n - 1
               PROVE  /\ u[d] = q[d - 1] /\ d - 1 \in 0 .. n - 1 /\ d - 1 < n - 1
                      /\ u[d] # e /\ u[d] \in 1 .. n
    OBVIOUS
  <2>1. d - 1 \in 0 .. n - 1 /\ d - 1 < n - 1 /\ d - 1 # n - 1  BY <1>1
  <2>2. q[d - 1] # q[n - 1]  BY <1>6, <1>14, <2>1
  <2> QED  BY <1>1, <1>4, <2>1, <2>2
<1>16. QueueOK(es2, u, n, m + 1, "unlinked")
  <2>1. ASSUME NEW d \in 0 .. n - 1, Used(es2, u[d])
        PROVE  es2[u[d]].key = KeyOf((m + 1) - 1 - d)
    <3>1. CASE d = 0
      <4>1. (m + 1) - 1 - 0 = m  OBVIOUS
      <4> QED  BY <1>4, <1>9, <1>10, <3>1, <4>1
    <3>2. CASE d \in 1 .. n - 1
      <4>1. Used(es, q[d - 1])  BY <1>13, <1>15, <2>1, <3>2
      <4>2. d - 1 # n - 1 /\ d - 1 \in 0 .. n - 1  BY <1>1, <3>2
      <4>3. es[q[d - 1]].key = KeyOf(m - 1 - (d - 1))  BY <1>7, <4>1, <4>2
      <4>4. m - 1 - (d - 1) = (m + 1) - 1 - d  OBVIOUS
      <4>5. es2[u[d]] = es[q[d - 1]]  BY <1>9, <1>15, <3>2
      <4> QED  BY <4>3, <4>4, <4>5
    <3> QED  BY <1>5, <3>1, <3>2
  <2>2. ASSUME NEW d \in 0 .. n - 1, Valued(es2, u[d]) PROVE Used(es2, u[d])
    <3>1. CASE d = 0  BY <1>4, <1>12, <3>1
    <3>2. CASE d \in 1 .. n - 1  BY <1>7, <1>13, <1>15, <2>2, <3>2
    <3> QED  BY <1>5, <3>1, <3>2
  <2>3. ASSUME NEW d \in 0 .. n - 1, Used(es2, u[d]), NEW c \in 0 .. d
        PROVE  Used(es2, u[c])
    <3>1. CASE c = 0  BY <1>4, <1>12, <3>1
    <3>2. CASE c # 0
      <4>1. c \in 1 .. n - 1 /\ d \in 1 .. n - 1 /\ c - 1 \in 0 .. d - 1
        BY <1>1, <3>2
      <4>2. Used(es, q[d - 1])  BY <1>13, <1>15, <2>3, <4>1
      <4>3. Used(es, q[c - 1])  BY <1>7, <1>15, <4>1, <4>2
      <4> QED  BY <1>13, <1>15, <4>1, <4>3
    <3> QED  BY <3>1, <3>2
  <2> QED  BY <1>4, <1>12, <2>1, <2>2, <2>3 DEF QueueOK
<1>17. Bijective(u, n)
  <2>1. ASSUME NEW c \in 0 .. n - 1, NEW d \in 0 .. n - 1, u[c] = u[d] PROVE c = d
    <3>1. c \in 1 .. n - 1 /\ d \in 1 .. n - 1 => c = d
      <4> SUFFICES ASSUME c \in 1 .. n - 1, d \in 1 .. n - 1 PROVE c = d  OBVIOUS
      <4>1. q[c - 1] = q[d - 1] /\ c - 1 \in 0 .. n - 1 /\ d - 1 \in 0 .. n - 1
        BY <1>15, <2>1
      <4>2. c - 1 = d - 1  BY <1>14, <4>1
      <4> QED  BY <4>2
    <3>2. c = 0 /\ d \in 1 .. n - 1 => FALSE  BY <1>4, <1>15, <2>1
    <3>3. d = 0 /\ c \in 1 .. n - 1 => FALSE  BY <1>4, <1>15, <2>1
    <3> QED  BY <1>5, <3>1, <3>2, <3>3
  <2>2. ASSUME NEW f \in 1 .. n PROVE \E d \in 0 .. n - 1 : u[d] = f
    <3>1. PICK d \in 0 .. n - 1 : q[d] = f  BY <1>14
    <3>2. CASE d = n - 1  BY <1>4, <1>6, <3>1, <3>2
    <3>3. CASE d # n - 1
      <4>1. d + 1 \in 1 .. n - 1 /\ d + 1 \in 0 .. n - 1 /\ (d + 1) - 1 = d
        BY <1>1, <3>3
      <4>2. u[d + 1] = q[(d + 1) - 1]  BY <1>4, <4>1
      <4> QED  BY <3>1, <4>1, <4>2
    <3> QED  BY <3>2, <3>3
  <2> QED  BY <2>1, <2>2 DEF Bijective
<1>18. CurrentOK(es2, g, tail, "unlinked")
  BY <1>0, <1>1, <1>3, <1>9, <1>11, <1>16, <1>17 DEF CurrentOK
<1>19. g \in Headers  BY <1>1, <1>3, HeaderIs
<1>20. /\ hs2 \in Seq(Headers) /\ Len(hs2) = Len(hs) /\ hs2[Len(hs2)] = g
       /\ \A i \in 1 .. Len(hs) - 1 : hs2[i] = hs[i]
  <2>1. hs2 = WithLast(hs, g)  BY <1>0
  <2>2. PICK l \in Nat : l = Len(hs) /\ l > 0  BY <1>1
  <2>3. hs \in [1 .. l -> Headers]  BY <1>1, <2>2
  <2>4. /\ WithLast(hs, g) \in [1 .. l -> Headers]
        /\ WithLast(hs, g)[l] = g
        /\ \A i \in 1 .. l - 1 : WithLast(hs, g)[i] = hs[i]
    BY <1>19, <2>2, <2>3, LastHeader
  <2> QED  BY <2>1, <2>2, <2>4
<1>21. ASSUME NEW i \in 1 .. Len(hs) - 1 PROVE ReplacedOK(es2, hs[i])
  <2>1. ReplacedOK(es, hs[i]) /\ Len(es) \in Nat /\ Len(es2) = Len(es)
    BY <1>0, <1>1, <1>9
  <2>2. CASE ~Used(es, e)
    <3>1. \A f \in 1 .. Len(es) : Used(es, f) => es2[f].key = es[f].key
      BY <1>0, <1>9, <2>2
    <3>2. 1 \in Nat /\ 1 > 0 /\ Len(es2) = 1 * Len(es)  BY <1>l, <2>1
    <3> QED  BY <2>1, <3>1, <3>2, ReplacedStays
  <2>3. CASE Used(es, e)
    <3>1. es[e].key = KeyOf(m - 1 - (n - 1)) \/ es[e].key = KeyOf(m)
      BY <1>4, <1>6, <1>7, <2>3
    <3>2. m - 1 - (n - 1) = m - n /\ m - n \in Int /\ m \in Int
          /\ (m - n) + 1 * n = m /\ m + 0 * n = m
      OBVIOUS
    <3>3. \A f \in 1 .. Len(es) : f # e => es2[f].key = es[f].key  BY <1>0, <1>9
    <3>4. CASE es[e].key = KeyOf(m - n)
      <4>1. es2[e].key = KeyOf(m) /\ 1 \in Int /\ TurnsOn(m - n, m, Len(es))
        <5>1. TurnsOn(m - n, m, n)  BY <3>2 DEF TurnsOn
        <5> QED  BY <1>0, <1>9, <1>10, <5>1
      <4> QED  BY <2>1, <3>2, <3>3, <3>4, <4>1, ReplacedTurns, Zenon
    <3>5. CASE es[e].key = KeyOf(m)
      <4>1. es2[e].key = KeyOf(m) /\ 0 \in Int /\ TurnsOn(m, m, Len(es))
        <5>1. TurnsOn(m, m, n)  BY <3>2 DEF TurnsOn
        <5> QED  BY <1>0, <1>9, <1>10, <5>1
      <4> QED  BY <2>1, <3>2, <3>3, <3>5, <4>1, ReplacedTurns
    <3> QED  BY <3>1, <3>2, <3>4, <3>5
  <2> QED  BY <2>2, <2>3
<1>22. \A i \in 1 .. Len(hs2) - 1 : ReplacedOK(es2, hs2[i])  BY <1>20, <1>21
<1>23. "unlinked" \in Stages  BY DEF Stages
<1>24. IndexOK(es2, hs2, tail, "unlinked")
  BY <1>1, <1>9, <1>18, <1>20, <1>22, <1>23 DEF IndexOK
<1>25. ASSUME NEW i \in 1 .. Len(hs) PROVE hs2[i].index = hs[i].index
  <2>1. i = Len(hs) \/ i \in 1 .. Len(hs) - 1  BY <1>1
  <2> QED  BY <1>0, <1>3, <1>20, <2>1
<1>26. g.index[g.tail] = e
  <2>1. HeaderOK(g, n, n)  BY <1>3
  <2>2. View(g, n)[0] = g.index[g.tail]  BY <2>1, ViewFirst
  <2> QED  BY <1>0, <1>4, <2>2
<1>27. TailEntry(hs2[Len(hs2)]) = e  BY <1>20, <1>26 DEF TailEntry
<1> QED  BY <1>0, <1>6, <1>8, <1>20, <1>24, <1>25, <1>27

\* As many new entries as there are.
Grown(es) == es \o [i \in 1 .. Len(es) |-> NewEntry]

\* The old ones stay, and the new ones were never used.
LEMMA GrownIs ==
    ASSUME NEW es \in Seq(Entry), NEW n \in Nat, n = Len(es)
    PROVE  /\ Grown(es) \in Seq(Entry) /\ Len(Grown(es)) = 2 * n
           /\ \A f \in 1 .. n : Grown(es)[f] = es[f]
           /\ \A f \in n + 1 .. 2 * n : ~Used(Grown(es), f) /\ ~Valued(Grown(es), f)
<1> DEFINE new == [i \in 1 .. n |-> NewEntry]
<1>1. NewEntry \in Entry /\ NewEntry.key = NoKey /\ NewEntry.value = Null
  BY DEF NewEntry, Entry, NoKey, BlockOrNull
<1>2. new \in Seq(Entry) /\ Len(new) = n /\ \A f \in 1 .. n : new[f] = NewEntry
  BY <1>1
<1>3. Grown(es) = es \o new  BY DEF Grown
<1> HIDE DEF new
<1>4. Grown(es) \in Seq(Entry) /\ Len(Grown(es)) = 2 * n
  <2>1. es \o new \in Seq(Entry)  BY <1>2
  <2>2. Len(es \o new) = Len(es) + Len(new)  BY <1>2
  <2>3. n + n = 2 * n  OBVIOUS
  <2> QED  BY <1>2, <1>3, <2>1, <2>2, <2>3
<1>5. \A f \in 1 .. n : Grown(es)[f] = es[f]  BY <1>2, <1>3
<1>6. ASSUME NEW f \in n + 1 .. 2 * n PROVE ~Used(Grown(es), f) /\ ~Valued(Grown(es), f)
  <2>1. f - n \in 1 .. n  OBVIOUS
  <2>2. Grown(es)[f] = new[f - n]  BY <1>2, <1>3, <2>1
  <2> QED  BY <1>1, <1>2, <2>1, <2>2 DEF Used, Valued
<1> QED  BY <1>4, <1>5, <1>6

\* A header is added.
LEMMA NextHeader ==
    ASSUME NEW l \in Nat, NEW hs \in [1 .. l -> Headers], NEW g \in Headers
    PROVE  /\ Append(hs, g) \in Seq(Headers) /\ Len(Append(hs, g)) = l + 1
           /\ Append(hs, g)[l + 1] = g
           /\ \A i \in 1 .. l : Append(hs, g)[i] = hs[i]
<1>1. hs \in Seq(Headers) /\ Len(hs) = l  OBVIOUS
<1>2. Append(hs, g) \in Seq(Headers) /\ Len(Append(hs, g)) = l + 1  BY <1>1
<1>4. Append(hs, g)[l + 1] = g  BY <1>1
<1>5. \A i \in 1 .. l : Append(hs, g)[i] = hs[i]  BY <1>1
<1> QED  BY <1>2, <1>4, <1>5

\* There are twice as many entries, and a header of twice the size.
LEMMA IndexGrows ==
    ASSUME NEW es, NEW hs, NEW tail, IndexOK(es, hs, tail, "none"),
           Valued(es, EntryBehind(hs[Len(hs)], Len(es))),
           NEW es2, es2 = Grown(es),
           NEW hs2, hs2 = Append(hs, Doubled(hs[Len(hs)], Len(es)))
    PROVE  /\ IndexOK(es2, hs2, tail, "none") /\ Len(hs2) = Len(hs) + 1
           /\ hs2[Len(hs2)] = Doubled(hs[Len(hs)], Len(es)) /\ Len(es2) = 2 * Len(es)
           /\ \A i \in 1 .. Len(hs) : hs2[i] = hs[i]
           /\ \A f \in 1 .. Len(es) : es2[f] = es[f]
           /\ \A f \in Len(es) + 1 .. Len(es2) : ~Used(es2, f) /\ ~Valued(es2, f)
           /\ LET e == EntryBehind(hs2[Len(hs2)], Len(es2)) IN
              e \in Len(es) + 1 .. Len(es2)
<1>l. PICK n \in Nat : n = Len(es)
  <2>1. Len(es) \in Nat  BY DEF IndexOK
  <2> QED  BY <2>1
<1>N. PICK N \in Nat : N = 2 * n
  <2>1. 2 * n \in Nat  OBVIOUS
  <2> QED  BY <2>1
<1>0. PICK h, q, g, u :
          /\ n = Len(es) /\ h = hs[Len(hs)] /\ q = View(h, n)
          /\ g = Doubled(h, n) /\ N = 2 * n /\ u = View(g, N)
  BY <1>l, <1>N
<1>1. /\ es \in Seq(Entry) /\ hs \in Seq(Headers) /\ Len(hs) > 0 /\ Len(hs) \in Nat
      /\ tail \in Nat
      /\ n >= 2 /\ HeaderOK(h, n, n) /\ Bijective(q, n)
      /\ \A i \in 1 .. Len(hs) - 1 : ReplacedOK(es, hs[i])
      /\ q \in [0 .. n - 1 -> 1 .. n]
  BY <1>0, IndexParts
<1>2. PICK m \in Nat : NextIs(m, tail, "none") /\ QueueOK(es, q, n, m, "none")
  BY <1>0, IndexMth
<1>3. Valued(es, q[n - 1])
  <2>1. HeaderOK(h, n, n)  BY <1>1
  <2>2. View(h, n)[n - 1] = EntryBehind(h, n)  BY <2>1, ViewLast
  <2> QED  BY <1>0, <2>2
<1>4. /\ HeaderOK(g, N, N)
      /\ \A d \in 0 .. n - 1 : u[d] = q[d]
      /\ \A d \in n .. N - 1 : u[d] = 3 * n - d
  <2>1. HeaderOK(h, n, n)  BY <1>1
  <2>2. /\ HeaderOK(Doubled(h, n), 2 * n, 2 * n)
        /\ \A d \in 0 .. n - 1 : View(Doubled(h, n), 2 * n)[d] = View(h, n)[d]
        /\ \A d \in n .. 2 * n - 1 : View(Doubled(h, n), 2 * n)[d] = 3 * n - d
    BY <2>1, ViewDoubles
  <2> QED  BY <1>0, <2>2
<1>5. /\ es2 \in Seq(Entry) /\ Len(es2) = N
      /\ \A f \in 1 .. n : es2[f] = es[f]
      /\ \A f \in n + 1 .. N : ~Used(es2, f) /\ ~Valued(es2, f)
  <2>1. es \in Seq(Entry) /\ n = Len(es)  BY <1>0, <1>1
  <2>2. /\ Grown(es) \in Seq(Entry) /\ Len(Grown(es)) = 2 * n
        /\ \A f \in 1 .. n : Grown(es)[f] = es[f]
        /\ \A f \in n + 1 .. 2 * n : ~Used(Grown(es), f) /\ ~Valued(Grown(es), f)
    BY <2>1, GrownIs
  <2> QED  BY <1>0, <2>2
<1>6. \A f \in 1 .. n : (Used(es2, f) <=> Used(es, f)) /\ (Valued(es2, f) <=> Valued(es, f))
  BY <1>5 DEF Used, Valued
<1>7. \A d \in 0 .. N - 1 : \/ d \in 0 .. n - 1 /\ u[d] = q[d] /\ u[d] \in 1 .. n
                            \/ d \in n .. N - 1 /\ u[d] = 3 * n - d /\ u[d] \in n + 1 .. N
  <2> SUFFICES ASSUME NEW d \in 0 .. N - 1
               PROVE  \/ d \in 0 .. n - 1 /\ u[d] = q[d] /\ u[d] \in 1 .. n
                      \/ d \in n .. N - 1 /\ u[d] = 3 * n - d /\ u[d] \in n + 1 .. N
    OBVIOUS
  <2>1. d \in 0 .. n - 1 \/ (d \in n .. N - 1 /\ 3 * n - d \in n + 1 .. N)  BY <1>0
  <2> QED  BY <1>1, <1>4, <2>1
<1>8. /\ \A d \in 0 .. n - 1 : Used(es, q[d])
      /\ \A d \in 0 .. n - 1 : es[q[d]].key = KeyOf(m - 1 - d)
                               \/ (es[q[d]].key = KeyOf(m) /\ d = n - 1)
      /\ \A d \in 0 .. n - 1 : Valued(es, q[d]) => es[q[d]].key = KeyOf(m - 1 - d)
  <2>1. n - 1 \in 0 .. n - 1  BY <1>1
  <2>2. Used(es, q[n - 1])  BY <1>2, <1>3, <2>1 DEF QueueOK
  <2>3. \A d \in 0 .. n - 1 : Used(es, q[d])  BY <1>2, <1>3, <2>1, <2>2 DEF QueueOK
  <2> QED  BY <1>2, <2>3 DEF QueueOK
<1>9. \A d \in 0 .. n - 1 : es[q[d]].key = KeyOf(m - 1 - d)  BY <1>3, <1>8
<1>10. QueueOK(es2, u, N, m, "none")
  <2>1. \A d \in 0 .. N - 1 : Used(es2, u[d]) => d \in 0 .. n - 1 /\ u[d] = q[d] /\ u[d] \in 1 .. n
    BY <1>5, <1>7
  <2>2. \A d \in 0 .. N - 1 : Used(es2, u[d]) => es2[u[d]].key = KeyOf(m - 1 - d)
    BY <1>5, <1>9, <2>1, Zenon
  <2>3. \A d \in 0 .. N - 1 : Valued(es2, u[d]) => Used(es2, u[d])
    BY <1>5, <1>6, <1>7, <1>8
  <2>4. ASSUME NEW d \in 0 .. N - 1, Used(es2, u[d]), NEW c \in 0 .. d PROVE Used(es2, u[c])
    <3>1. d \in 0 .. n - 1  BY <2>1, <2>4
    <3>2. c \in 0 .. n - 1  BY <3>1
    <3>3. u[c] = q[c] /\ q[c] \in 1 .. n  BY <1>1, <1>4, <3>2
    <3> QED  BY <1>6, <1>8, <3>2, <3>3
  <2> QED  BY <2>2, <2>3, <2>4 DEF QueueOK
<1>11. Bijective(u, N)
  <2>1. /\ \A c, d \in 0 .. n - 1 : q[c] = q[d] => c = d
        /\ \A e \in 1 .. n : \E d \in 0 .. n - 1 : q[d] = e
    BY <1>1 DEF Bijective
  <2>2. ASSUME NEW c \in 0 .. N - 1, NEW d \in 0 .. N - 1, u[c] = u[d] PROVE c = d
    <3>1. CASE c \in 0 .. n - 1 /\ d \in 0 .. n - 1  BY <1>4, <2>1, <2>2, <3>1
    <3>2. CASE c \in 0 .. n - 1 /\ u[c] \in 1 .. n /\ u[d] \in n + 1 .. N
      BY <2>2, <3>2
    <3>3. CASE d \in 0 .. n - 1 /\ u[d] \in 1 .. n /\ u[c] \in n + 1 .. N
      BY <2>2, <3>3
    <3>4. CASE u[c] = 3 * n - c /\ u[d] = 3 * n - d
      <4>1. 3 * n - c = 3 * n - d  BY <2>2, <3>4
      <4> QED  BY <4>1
    <3> QED  BY <1>7, <3>1, <3>2, <3>3, <3>4
  <2>3. ASSUME NEW e \in 1 .. N PROVE \E d \in 0 .. N - 1 : u[d] = e
    <3>1. CASE e \in 1 .. n
      <4>1. PICK d \in 0 .. n - 1 : q[d] = e  BY <2>1, <3>1
      <4>2. d \in 0 .. N - 1  BY <1>0
      <4> QED  BY <1>4, <4>1, <4>2
    <3>2. CASE e \in n + 1 .. N
      <4>1. 3 * n - e \in n .. N - 1 /\ 3 * n - e \in 0 .. N - 1 /\ 3 * n - (3 * n - e) = e
        BY <1>0, <3>2
      <4> QED  BY <1>4, <4>1
    <3>3. e \in 1 .. n \/ e \in n + 1 .. N  BY <1>0
    <3> QED  BY <3>1, <3>2, <3>3
  <2> QED  BY <2>2, <2>3 DEF Bijective
<1>12. N >= 2  BY <1>0, <1>1
<1>13. CurrentOK(es2, g, tail, "none")
  BY <1>0, <1>2, <1>4, <1>5, <1>10, <1>11, <1>12 DEF CurrentOK
<1>14. g \in Headers  BY <1>4, HeaderIs
<1>15. /\ hs2 \in Seq(Headers) /\ Len(hs2) = Len(hs) + 1 /\ hs2[Len(hs2)] = g
       /\ \A i \in 1 .. Len(hs) : hs2[i] = hs[i]
  <2>1. hs2 = Append(hs, g)  BY <1>0
  <2>2. PICK l \in Nat : l = Len(hs)  BY <1>1
  <2>3. hs \in [1 .. l -> Headers]  BY <1>1, <2>2
  <2>4. /\ Append(hs, g) \in Seq(Headers) /\ Len(Append(hs, g)) = l + 1
        /\ Append(hs, g)[l + 1] = g
        /\ \A i \in 1 .. l : Append(hs, g)[i] = hs[i]
    BY <1>14, <2>3, NextHeader
  <2> QED  BY <2>1, <2>2, <2>4
<1>16. \A f \in 1 .. Len(es) : es2[f].key = es[f].key  BY <1>0, <1>5
<1>17. Len(es2) = 2 * Len(es) /\ Len(es) \in Nat /\ 2 \in Nat /\ 2 > 0
  BY <1>0, <1>5
<1>18. ASSUME NEW i \in 1 .. Len(hs) - 1 PROVE ReplacedOK(es2, hs[i])
  <2>1. ReplacedOK(es, hs[i])  BY <1>1
  <2>2. \A f \in 1 .. Len(es) : Used(es, f) => es2[f].key = es[f].key  BY <1>16
  <2> QED  BY <1>17, <2>1, <2>2, ReplacedStays
<1>19. ReplacedOK(es, h)
  <2>1. CurrentOK(es, h, tail, "none")  BY <1>0 DEF IndexOK
  <2>2. Aligned(es, h, Len(es))  BY <1>1, <2>1, CurrentAligned
  <2>3. HeaderOK(h, n, Len(es)) /\ Aligned(es, h, n) /\ Len(es) = 1 * n /\ 1 \in Nat
    BY <1>0, <1>1, <2>2
  <2>4. ASSUME NEW s \in 0 .. n - 1 PROVE Used(es, h.index[s])
    <3>1. h.index[s] \in 1 .. n  BY <1>1 DEF HeaderOK
    <3>2. PICK d \in 0 .. n - 1 : q[d] = h.index[s]  BY <1>1, <3>1 DEF Bijective
    <3> QED  BY <1>8, <3>2
  <2> QED  BY <2>3, <2>4 DEF ReplacedOK
<1>20. ReplacedOK(es2, h)
  <2>2. \A f \in 1 .. Len(es) : Used(es, f) => es2[f].key = es[f].key  BY <1>16
  <2> QED  BY <1>17, <1>19, <2>2, ReplacedStays
<1>21. ASSUME NEW i \in 1 .. Len(hs2) - 1 PROVE ReplacedOK(es2, hs2[i])
  <2>1. i \in 1 .. Len(hs) /\ (i \in 1 .. Len(hs) - 1 \/ i = Len(hs))
    BY <1>1, <1>15
  <2>2. hs2[i] = hs[i]  BY <1>15, <2>1
  <2> QED  BY <1>0, <1>18, <1>20, <2>1, <2>2
<1>22. "none" \in Stages  BY DEF Stages
<1>23. IndexOK(es2, hs2, tail, "none")
  BY <1>1, <1>5, <1>13, <1>15, <1>21, <1>22 DEF IndexOK
<1>24. EntryBehind(g, N) \in n + 1 .. N
  <2>1. View(g, N)[N - 1] = EntryBehind(g, N)  BY <1>4, ViewLast
  <2>2. N - 1 \in n .. N - 1 /\ 3 * n - (N - 1) \in n + 1 .. N  BY <1>0, <1>1
  <2> QED  BY <1>0, <1>4, <2>1, <2>2
<1>25. EntryBehind(hs2[Len(hs2)], Len(es2)) \in Len(es) + 1 .. Len(es2)
  BY <1>0, <1>5, <1>15, <1>24
<1> QED  BY <1>0, <1>5, <1>15, <1>17, <1>23, <1>25

\* New entries, all the same.
NewEntries(n) == [i \in 1 .. n |-> NewEntry]

\* They are entries.
LEMMA NewEntriesAre ==
    ASSUME NEW n \in Nat
    PROVE  /\ NewEntries(n) \in Seq(Entry) /\ Len(NewEntries(n)) = n
           /\ \A e \in 1 .. n : NewEntries(n)[e] = NewEntry
<1>1. NewEntry \in Entry  BY DEF NewEntry, Entry, NoKey, BlockOrNull
<1> QED  BY <1>1 DEF NewEntries

\* The first index of a producer.
LEMMA IndexFirst ==
    ASSUME NEW es, es = NewEntries(IndexSize)
    PROVE  IndexOK(es, <<FirstIndex>>, 0, "none")
<1>1. PICK n \in Nat : n = IndexSize /\ n >= 2  BY SizesAre
<1>2. /\ NewEntry \in Entry /\ NewEntry.key = NoKey /\ NewEntry.value = Null
  BY DEF NewEntry, Entry, NoKey, BlockOrNull
<1>3. /\ es \in Seq(Entry) /\ Len(es) = n
      /\ \A e \in 1 .. n : ~Used(es, e) /\ ~Valued(es, e)
  <2>1. es = NewEntries(n)  BY <1>1
  <2>2. es \in Seq(Entry) /\ Len(es) = n /\ \A e \in 1 .. n : es[e] = NewEntry
    BY <2>1, NewEntriesAre
  <2> QED  BY <1>2, <2>2 DEF Used, Valued
<1>4. PICK h : h = FirstIndex  BY Zenon
<1>5. /\ h.index = [i \in 0 .. n - 1 |-> i + 1] /\ h.tail = n - 1
      /\ h = [index |-> h.index, tail |-> h.tail]
  BY <1>1, <1>4 DEF FirstIndex
<1>6. h.index \in [0 .. n - 1 -> 1 .. n] /\ \A i \in 0 .. n - 1 : h.index[i] = i + 1
  BY <1>5
<1>7. HeaderOK(h, n, n)  BY <1>1, <1>5, <1>6 DEF HeaderOK
<1>8. \A d \in 0 .. n - 1 : View(h, n)[d] = n - d
  <2> SUFFICES ASSUME NEW d \in 0 .. n - 1 PROVE View(h, n)[d] = n - d  OBVIOUS
  <2>1. SlotAt(h, n, d) = n - 1 - d /\ n - 1 - d \in 0 .. n - 1  BY <1>5 DEF SlotAt
  <2>2. h.index[n - 1 - d] = (n - 1 - d) + 1  BY <1>6, <2>1
  <2> QED  BY <2>1, <2>2 DEF View
<1>9. \A d \in 0 .. n - 1 : n - d \in 1 .. n  OBVIOUS
<1>10. Bijective(View(h, n), n)
  <2>1. ASSUME NEW c \in 0 .. n - 1, NEW d \in 0 .. n - 1, View(h, n)[c] = View(h, n)[d]
        PROVE  c = d
    <3>1. n - c = n - d  BY <1>8, <2>1
    <3> QED  BY <3>1
  <2>2. ASSUME NEW e \in 1 .. n PROVE \E d \in 0 .. n - 1 : View(h, n)[d] = e
    <3>1. n - e \in 0 .. n - 1 /\ n - (n - e) = e  OBVIOUS
    <3> QED  BY <1>8, <3>1
  <2> QED  BY <2>1, <2>2 DEF Bijective
<1>11. NextIs(0, 0, "none")  BY KeysAre, SizesAre DEF NextIs
<1>12. QueueOK(es, View(h, n), n, 0, "none")  BY <1>3, <1>8, <1>9 DEF QueueOK
<1>13. CurrentOK(es, h, 0, "none")
  BY <1>1, <1>3, <1>7, <1>10, <1>11, <1>12 DEF CurrentOK
<1>14. h \in Headers  BY <1>7, HeaderIs
<1>15. <<h>> \in Seq(Headers) /\ Len(<<h>>) = 1 /\ <<h>>[1] = h  BY <1>14
<1>16. IndexOK(es, <<h>>, 0, "none")  BY <1>3, <1>13, <1>15 DEF IndexOK, Stages
<1> QED  BY <1>4, <1>16

\* Every header of an index, also one that was replaced, is in order.
LEMMA HeadersAligned ==
    ASSUME NEW es, NEW hs, NEW tail, NEW stage, IndexOK(es, hs, tail, stage),
           NEW i \in 1 .. Len(hs)
    PROVE  \E n \in Nat : HeaderOK(hs[i], n, Len(es)) /\ Aligned(es, hs[i], n)
<1>1. i = Len(hs) \/ i \in 1 .. Len(hs) - 1  BY DEF IndexOK
<1>2. CASE i = Len(hs)
  <2>1. CurrentOK(es, hs[i], tail, stage) /\ es \in Seq(Entry)  BY <1>2 DEF IndexOK
  <2>2. Aligned(es, hs[i], Len(es))  BY <2>1, CurrentAligned
  <2>3. HeaderOK(hs[i], Len(es), Len(es)) /\ Len(es) \in Nat  BY <2>1 DEF CurrentOK
  <2> QED  BY <2>2, <2>3
<1>3. CASE i \in 1 .. Len(hs) - 1
  <2>1. ReplacedOK(es, hs[i])  BY <1>3 DEF IndexOK
  <2> QED  BY <2>1 DEF ReplacedOK
<1> QED  BY <1>1, <1>2, <1>3

\* The entry found for the element i, from the slot t on, in a table of n slots.
Found(es, h, t, i, n) == h.index[(t + (Base(i) - es[h.index[t]].key) \div BlockSize) % n]

\* A block later is a quotient more.
LEMMA WholeBlocks ==
    ASSUME NEW i \in Int, NEW j \in Int
    PROVE  (KeyOf(i) - KeyOf(j)) \div BlockSize = i - j
<1>1. BlockSize \in Nat /\ BlockSize >= 2  BY SizesAre
<1> DEFINE B == BlockSize
<1> HIDE DEF B
<1>2. B \in Nat /\ B >= 2 /\ KeyOf(i) = B * i /\ KeyOf(j) = B * j
  BY <1>1 DEF KeyOf, B
<1>3. B * i - B * j = B * (i - j) /\ i - j \in Int  BY <1>2
<1>4. \A k \in Int : (B * k) \div B = k  BY <1>2
<1>5. (B * (i - j)) \div B = i - j  BY <1>3, <1>4
<1> QED  BY <1>2, <1>3, <1>5 DEF B

\* Whatever slot the search starts at, it finds the entry of the element.
LEMMA FindsEntry ==
    ASSUME NEW es \in Seq(Entry), NEW n \in Nat, NEW N \in Nat, NEW h, HeaderOK(h, n, N),
           Aligned(es, h, n), NEW i \in Nat,
           NEW t \in 0 .. n - 1, Used(es, h.index[t]),
           NEW s \in 0 .. n - 1, es[h.index[s]].key = Base(i)
    PROVE  Found(es, h, t, i, n) = h.index[s]
<1>1. n > 0  BY DEF HeaderOK
<1>2. PICK j \in Nat : Base(i) = KeyOf(j)  BY BaseIs
<1>3. Used(es, h.index[s])  BY <1>2, KeysAre DEF Used
<1>4. PICK c \in Int : \A r \in 0 .. n - 1 : Used(es, h.index[r]) =>
          \E k \in Int : es[h.index[r]].key = KeyOf(r + c + k * n)
  BY DEF Aligned
<1>5. PICK k \in Int : es[h.index[t]].key = KeyOf(t + c + k * n)  BY <1>4
<1>6. PICK l \in Int : es[h.index[s]].key = KeyOf(s + c + l * n)  BY <1>3, <1>4
<1>7. PICK x \in Int, y \in Int : x = s + c + l * n /\ y = t + c + k * n  OBVIOUS
<1>8. (Base(i) - es[h.index[t]].key) \div BlockSize = x - y
  BY <1>5, <1>6, <1>7, WholeBlocks
<1>9. t + (x - y) = s + (l - k) * n /\ l - k \in Int
  <2>1. (l - k) * n = l * n - k * n /\ l * n \in Int /\ k * n \in Int  OBVIOUS
  <2> QED  BY <1>7, <2>1
<1>10. (s + (l - k) * n) % n = s  BY <1>1, <1>9, SlotOfTurns
<1>11. (t + (Base(i) - es[h.index[t]].key) \div BlockSize) % n = s
  BY <1>8, <1>9, <1>10
<1> QED  BY <1>11 DEF Found

\* The size of a table.
LEMMA CapacityIs ==
    ASSUME NEW n \in Nat, NEW N \in Nat, NEW h, HeaderOK(h, n, N)
    PROVE  Capacity(h) = n /\ DOMAIN h.index = 0 .. n - 1 /\ n > 0
<1>1. DOMAIN h.index = 0 .. n - 1 /\ n > 0  BY DEF HeaderOK
<1>2. Cardinality(0 .. n - 1) = n
  <2>1. 0 \in Int /\ n - 1 \in Int  OBVIOUS
  <2>2. Cardinality(0 .. n - 1) = IF 0 > n - 1 THEN 0 ELSE (n - 1) - 0 + 1
    BY <2>1, FS_Interval
  <2> QED  BY <1>1, <2>2
<1> QED  BY <1>1, <1>2 DEF Capacity

-----------------------------------------------------------------------------
(***************************************************************************)
(* The elements of one producer p: its entries es, its headers hs, its      *)
(* tail, the block tb of the tail, the stage of its thread, and the         *)
(* elements D that are done; and of the blocks, what is in their cells and  *)
(* how many of their elements have been taken.                              *)
(***************************************************************************)
Elements == 0 .. BlockSize - 1

\* The elements of the block with the key k that are done.
DoneAt(k, D) == {r \in Elements : k + r \in D}

\* The block that starts at k has been linked.
Opened(k, tail, stage) == k < tail \/ (k = tail /\ stage = "linked")

\* What the block of the entry e holds.
HoldsElements(p, es, e, tail, tb, cl, ec, D) ==
    LET k == es[e].key b == es[e].value IN
    /\ \A r \in Elements : k + r < tail => cl[b][r] = <<p, k + r>>
    /\ ec[b] = Cardinality(DoneAt(k, D))
    /\ k <= tail /\ tail < k + BlockSize => b = tb

ValuesOK(p, es, tail, tb, cl, ec, D) ==
    \A e \in 1 .. Len(es) : Valued(es, e) => HoldsElements(p, es, e, tail, tb, cl, ec, D)

\* The entry e has the block of the element i.
EntryOf(es, e, i) == e \in 1 .. Len(es) /\ Valued(es, e) /\ es[e].key = Base(i)

\* An element that is not done has its block in the index.
KeptOK(es, tail, stage, D) ==
    \A i \in Nat : Opened(Base(i), tail, stage) /\ i \notin D => \E e : EntryOf(es, e, i)

\* All of it.  What is done is behind the tail.
PartOK(p, es, hs, tail, tb, stage, cl, ec, D) ==
    /\ IndexOK(es, hs, tail, stage)
    /\ ValuesOK(p, es, tail, tb, cl, ec, D)
    /\ KeptOK(es, tail, stage, D)
    /\ D \in SUBSET Nat /\ \A i \in D : i < tail

\* The elements that are done can be counted.
LEMMA DoneFinite ==
    ASSUME NEW k, NEW D
    PROVE  /\ IsFiniteSet(DoneAt(k, D)) /\ Cardinality(DoneAt(k, D)) \in Nat
           /\ IsFiniteSet(Elements) /\ Cardinality(Elements) = BlockSize
           /\ DoneAt(k, D) \subseteq Elements
<1>1. BlockSize \in Nat /\ BlockSize >= 2  BY SizesAre
<1>2. 0 \in Int /\ BlockSize - 1 \in Int /\ ~(0 > BlockSize - 1) /\ BlockSize - 1 - 0 + 1 = BlockSize
  BY <1>1
<1>3. IsFiniteSet(Elements) /\ Cardinality(Elements) = BlockSize
  BY <1>2, FS_Interval DEF Elements
<1>4. DoneAt(k, D) \subseteq Elements  BY DEF DoneAt
<1>5. IsFiniteSet(DoneAt(k, D)) /\ Cardinality(DoneAt(k, D)) \in Nat
  BY <1>3, <1>4, FS_Subset, FS_CardinalityType
<1> QED  BY <1>3, <1>4, <1>5

\* The cells and counts of the blocks that are not in the index do not matter.
LEMMA PartOther ==
    ASSUME NEW p, NEW es, NEW hs, NEW tail, NEW tb, NEW stage, NEW cl, NEW ec, NEW D,
           PartOK(p, es, hs, tail, tb, stage, cl, ec, D),
           NEW cl2, NEW ec2,
           \A e \in 1 .. Len(es) : Valued(es, e) =>
               cl2[es[e].value] = cl[es[e].value] /\ ec2[es[e].value] = ec[es[e].value]
    PROVE  PartOK(p, es, hs, tail, tb, stage, cl2, ec2, D)
<1>1. ASSUME NEW e \in 1 .. Len(es), Valued(es, e)
      PROVE  HoldsElements(p, es, e, tail, tb, cl2, ec2, D)
  <2>1. HoldsElements(p, es, e, tail, tb, cl, ec, D)  BY <1>1 DEF PartOK, ValuesOK
  <2>2. cl2[es[e].value] = cl[es[e].value] /\ ec2[es[e].value] = ec[es[e].value]
    BY <1>1
  <2> QED  BY <2>1, <2>2 DEF HoldsElements
<1> QED  BY <1>1 DEF PartOK, ValuesOK

\* What a change of the index leaves to the threads that read: the keys in use, the
\* blocks, the tables, and more of them.
Leaves(es, hs, es2, hs2) ==
    /\ Len(es) <= Len(es2) /\ Len(hs) <= Len(hs2)
    /\ \A e \in 1 .. Len(es) : /\ e \in 1 .. Len(es2)
                               /\ Used(es, e) => Used(es2, e)
                               /\ Valued(es, e) => es2[e] = es[e]
    /\ \A i \in 1 .. Len(hs) : i \in 1 .. Len(hs2) /\ hs2[i].index = hs[i].index

\* And no block comes in.
NothingNew(es, es2) ==
    \A e \in 1 .. Len(es2) : Valued(es2, e) => e \in 1 .. Len(es) /\ es2[e] = es[e]

\* The element is still in its entry.
LEMMA LeavesValued ==
    ASSUME NEW es, NEW hs, NEW es2, NEW hs2, Leaves(es, hs, es2, hs2), NEW e \in 1 .. Len(es),
           Valued(es, e)
    PROVE  e \in 1 .. Len(es2) /\ Valued(es2, e) /\ es2[e] = es[e]
BY DEF Leaves, Valued

\* The entry of an index where there is no block yet.
LEMMA PartIndexed ==
    ASSUME NEW p, NEW es, NEW hs, NEW tail, NEW tb, NEW stage, NEW cl, NEW ec, NEW D,
           PartOK(p, es, hs, tail, tb, stage, cl, ec, D),
           NEW es2, NEW hs2, NEW stage2, IndexOK(es2, hs2, tail, stage2),
           stage2 # "linked", Leaves(es, hs, es2, hs2), NothingNew(es, es2)
    PROVE  PartOK(p, es2, hs2, tail, tb, stage2, cl, ec, D)
<1>1. ASSUME NEW e \in 1 .. Len(es2), Valued(es2, e)
      PROVE  HoldsElements(p, es2, e, tail, tb, cl, ec, D)
  <2>1. e \in 1 .. Len(es) /\ es2[e] = es[e]  BY <1>1 DEF NothingNew
  <2>2. Valued(es, e)  BY <1>1, <2>1 DEF Valued
  <2>3. HoldsElements(p, es, e, tail, tb, cl, ec, D)
    BY <2>1, <2>2 DEF PartOK, ValuesOK
  <2> QED  BY <2>1, <2>3 DEF HoldsElements
<1>2. ASSUME NEW i \in Nat, Opened(Base(i), tail, stage2), i \notin D
      PROVE  \E e : EntryOf(es2, e, i)
  <2>1. Opened(Base(i), tail, stage)  BY <1>2 DEF Opened
  <2>2. PICK e : EntryOf(es, e, i)  BY <1>2, <2>1 DEF PartOK, KeptOK
  <2>3. e \in 1 .. Len(es2) /\ Valued(es2, e) /\ es2[e] = es[e]
    BY <2>2, LeavesValued DEF EntryOf
  <2> QED  BY <2>2, <2>3 DEF EntryOf
<1> QED  BY <1>1, <1>2 DEF PartOK, ValuesOK, KeptOK

\* No entry of the index has the block.
Lacks(es, b) == \A e \in 1 .. Len(es) : Valued(es, e) => es[e].value # b

\* Where a block is put into an entry that had none, no entry changes that had one.
LEMMA ValueLeaves ==
    ASSUME NEW es \in Seq(Entry), NEW hs, Len(hs) \in Nat, NEW e \in 1 .. Len(es), NEW b \in BlockOrNull,
           ~Valued(es, e), NEW es2, es2 = WithValue(es, e, b)
    PROVE  Leaves(es, hs, es2, hs)
<1>1. /\ es2 \in Seq(Entry) /\ Len(es2) = Len(es)
      /\ es2[e].value = b /\ es2[e].key = es[e].key
      /\ \A f \in 1 .. Len(es) : f # e => es2[f] = es[f]
  BY ValueChanges
<1>2. Len(es) \in Nat  OBVIOUS
<1>3. ASSUME NEW f \in 1 .. Len(es)
      PROVE  /\ f \in 1 .. Len(es2)
             /\ Used(es, f) => Used(es2, f)
             /\ Valued(es, f) => es2[f] = es[f]
  <2>1. CASE f = e  BY <1>1, <1>2, <2>1 DEF Used, Valued
  <2>2. CASE f # e  BY <1>1, <1>2, <2>2 DEF Used, Valued
  <2> QED  BY <2>1, <2>2
<1>4. Len(es) <= Len(es2) /\ Len(hs) <= Len(hs) /\ \A i \in 1 .. Len(hs) : i \in 1 .. Len(hs) /\ hs[i].index = hs[i].index
  BY <1>1, <1>2
<1> QED  BY <1>3, <1>4 DEF Leaves

\* The block is linked: it is the last one, and holds nothing yet.
LEMMA PartLinks ==
    ASSUME NEW p, NEW es, NEW hs, NEW tail, NEW tb, NEW cl, NEW ec, NEW D,
           PartOK(p, es, hs, tail, tb, "unlinked", cl, ec, D),
           NEW e, e = TailEntry(hs[Len(hs)]), NEW b \in Blocks, Lacks(es, b),
           NEW es2, es2 = WithValue(es, e, b),
           NEW ec2, ec2[b] = 0, \A x \in Blocks : x # b => ec2[x] = ec[x]
    PROVE  /\ PartOK(p, es2, hs, tail, b, "linked", cl, ec2, D)
           /\ Leaves(es, hs, es2, hs) /\ e \in 1 .. Len(es) /\ ~Valued(es, e)
<1>1. IndexOK(es, hs, tail, "unlinked") /\ D \in SUBSET Nat /\ \A i \in D : i < tail
  BY DEF PartOK
<1>2. es \in Seq(Entry) /\ hs \in Seq(Headers) /\ Len(hs) \in Nat /\ tail \in Nat
  BY <1>1 DEF IndexOK
<1>3. IndexOK(es2, hs, tail, "linked") /\ e \in 1 .. Len(es)  BY <1>1, IndexLinks
<1>4. es[e].key = tail /\ ~Valued(es, e)  BY <1>1, IndexFacts DEF TailEntry
<1>5. b \in BlockOrNull /\ b # Null  BY BlocksAre DEF BlockOrNull
<1>6. /\ es2 \in Seq(Entry) /\ Len(es2) = Len(es) /\ es2[e].value = b /\ es2[e].key = es[e].key
      /\ \A f \in 1 .. Len(es) : f # e => es2[f] = es[f]
  <2>1. ASSUME NEW d \in 1 .. Len(es), es2 = WithValue(es, d, b)
        PROVE  /\ es2 \in Seq(Entry) /\ Len(es2) = Len(es) /\ es2[d].value = b /\ es2[d].key = es[d].key
               /\ \A f \in 1 .. Len(es) : f # d => es2[f] = es[f]
    BY <1>2, <1>5, <2>1, ValueChanges
  <2> QED  BY <1>3, <2>1
<1>7. Leaves(es, hs, es2, hs)  BY <1>2, <1>3, <1>4, <1>5, ValueLeaves
<1>8. Valued(es2, e) /\ es2[e].key = tail  BY <1>4, <1>5, <1>6 DEF Valued
<1>9. PICK j \in Nat : tail = KeyOf(j)  BY <1>3, <1>6, <1>8, IndexFacts
<1>10. HoldsElements(p, es2, e, tail, b, cl, ec2, D)
  <2>1. DoneAt(tail, D) = {}  BY <1>1, <1>2, SizesAre DEF DoneAt, Elements
  <2>2. Cardinality(DoneAt(tail, D)) = 0  BY <2>1, FS_EmptySet
  <2>3. \A r \in Elements : ~(tail + r < tail)  BY <1>2, SizesAre DEF Elements
  <2> QED  BY <1>6, <1>8, <2>2, <2>3 DEF HoldsElements
<1>11. ASSUME NEW f \in 1 .. Len(es2), Valued(es2, f), f # e
       PROVE  HoldsElements(p, es2, f, tail, b, cl, ec2, D)
  <2>1. f \in 1 .. Len(es) /\ es2[f] = es[f]  BY <1>6, <1>11
  <2>2. Valued(es, f)  BY <1>11, <2>1 DEF Valued
  <2>3. HoldsElements(p, es, f, tail, tb, cl, ec, D)
    BY <2>1, <2>2 DEF PartOK, ValuesOK
  <2>4. es[f].value # b /\ es[f].value \in Blocks
    BY <1>1, <2>1, <2>2, IndexFacts DEF Lacks
  <2>5. ec2[es[f].value] = ec[es[f].value]  BY <2>4
  <2>6. es[f].key < tail  BY <1>1, <2>1, <2>2, IndexFacts
  <2>7. PICK i \in Nat : es[f].key = KeyOf(i)  BY <1>1, <2>1, <2>2, IndexFacts
  <2>8. i < j
    <3>1. KeyOf(i) \in Int /\ KeyOf(j) \in Int /\ KeyOf(i) < KeyOf(j)
      BY <1>9, <2>6, <2>7, KeysAre
    <3>2. ~(j < i)  BY <3>1, KeysAre, SizesAre
    <3>3. i # j  BY <3>1
    <3> QED  BY <3>2, <3>3
  <2>9. KeyOf(i) + BlockSize <= KeyOf(j)  BY <2>8, KeysAre
  <2>10. ~(tail < es[f].key + BlockSize)
    <3>1. KeyOf(i) \in Int /\ KeyOf(j) \in Int
      <4>1. i \in Int /\ j \in Int  OBVIOUS
      <4> QED  BY <4>1, KeysAre
    <3>2. BlockSize \in Int  BY SizesAre
    <3> QED  BY <1>9, <2>7, <2>9, <3>1, <3>2
  <2> QED  BY <2>1, <2>3, <2>5, <2>10 DEF HoldsElements
<1>12. ValuesOK(p, es2, tail, b, cl, ec2, D)  BY <1>10, <1>11 DEF ValuesOK
<1>13. ASSUME NEW i \in Nat, Opened(Base(i), tail, "linked"), i \notin D
       PROVE  \E f : EntryOf(es2, f, i)
  <2>1. CASE Base(i) = tail
    <3>1. EntryOf(es2, e, i)  BY <1>3, <1>6, <1>8, <2>1 DEF EntryOf
    <3> QED  BY <3>1
  <2>2. CASE Base(i) # tail
    <3>1. Opened(Base(i), tail, "unlinked")  BY <1>13, <2>2 DEF Opened
    <3>2. PICK f : EntryOf(es, f, i)  BY <1>13, <3>1 DEF PartOK, KeptOK
    <3>3. f \in 1 .. Len(es2) /\ Valued(es2, f) /\ es2[f] = es[f]
      BY <1>7, <3>2, LeavesValued DEF EntryOf
    <3>4. EntryOf(es2, f, i)  BY <3>2, <3>3 DEF EntryOf
    <3> QED  BY <3>4
  <2> QED  BY <2>1, <2>2
<1>14. KeptOK(es2, tail, "linked", D)  BY <1>13 DEF KeptOK
<1> QED  BY <1>1, <1>3, <1>4, <1>7, <1>12, <1>14 DEF PartOK

\* No block is in two entries.
Distinct(es) ==
    \A e, f \in 1 .. Len(es) :
        Valued(es, e) /\ Valued(es, f) /\ es[e].value = es[f].value => e = f

\* The cell r of the block b is written.
WritesCell(cl, cl2, b, r, x) ==
    /\ cl2[b][r] = x
    /\ \A c \in Blocks, s \in Elements : c # b \/ s # r => cl2[c][s] = cl[c][s]

\* What holds of the parts.
LEMMA PartFacts ==
    ASSUME NEW p, NEW es, NEW hs, NEW tail, NEW tb, NEW stage, NEW cl, NEW ec, NEW D,
           PartOK(p, es, hs, tail, tb, stage, cl, ec, D)
    PROVE  /\ IndexOK(es, hs, tail, stage) /\ KeptOK(es, tail, stage, D)
           /\ D \in SUBSET Nat /\ \A i \in D : i < tail
           /\ es \in Seq(Entry) /\ hs \in Seq(Headers) /\ tail \in Nat
           /\ Len(hs) \in Nat /\ Len(hs) > 0 /\ Len(es) \in Nat
           /\ \A e \in 1 .. Len(es) : Valued(es, e) => HoldsElements(p, es, e, tail, tb, cl, ec, D)
BY DEF PartOK, IndexOK, ValuesOK

\* The element at the tail belongs to a block that is linked, which is the last one.
LEMMA TailElement ==
    ASSUME NEW p, NEW es, NEW hs, NEW tail, NEW tb, NEW stage, NEW cl, NEW ec, NEW D,
           PartOK(p, es, hs, tail, tb, stage, cl, ec, D),
           stage = "linked" \/ (stage = "none" /\ ~Begins(tail))
    PROVE  /\ \E e : EntryOf(es, e, tail) /\ es[e].value = tb
           /\ tail \in Nat
           /\ \A i \in Nat : Opened(Base(i), tail + 1, "none") => Opened(Base(i), tail, stage)
<1>1. tail \in Nat /\ tail \notin D /\ IndexOK(es, hs, tail, stage) /\ KeptOK(es, tail, stage, D)
  <2>1. tail \in Nat /\ D \in SUBSET Nat /\ \A i \in D : i < tail  BY PartFacts
  <2> QED  BY <2>1, PartFacts
<1>2. Base(tail) \in Nat /\ Base(tail) <= tail /\ tail < Base(tail) + BlockSize
  BY <1>1, BaseIs
<1>3. CASE stage = "linked"
  <2>1. PICK e : e \in 1 .. Len(es) /\ es[e].key = tail /\ Used(es, e)
    BY <1>1, <1>3, IndexFacts
  <2>2. Base(tail) = tail
    <3>1. PICK m \in Nat : KeyOf(m) = tail + BlockSize
      <4>1. PICK q : CurrentOK(es, q, tail, stage)  BY <1>1 DEF IndexOK
      <4> QED  BY <1>3, <4>1 DEF CurrentOK, NextIs
    <3>2. KeyOf(m - 1) + BlockSize = KeyOf(m)
      <4>1. m - 1 \in Int /\ (m - 1) + 1 = m  OBVIOUS
      <4> QED  BY <4>1, KeysAre
    <3>3. m - 1 \in Int /\ KeyOf(m - 1) \in Int  BY KeysAre
    <3>4. KeyOf(m - 1) = tail  BY <1>1, <3>1, <3>2, <3>3, SizesAre
    <3>5. KeyOf(m - 1) <= tail /\ tail < KeyOf(m - 1) + BlockSize
      BY <1>1, <3>4, SizesAre
    <3> QED  BY <1>1, <3>3, <3>4, <3>5, BaseIs
  <2>3. Opened(Base(tail), tail, stage)  BY <1>3, <2>2 DEF Opened
  <2>4. PICK f : EntryOf(es, f, tail)  BY <1>1, <2>3 DEF KeptOK
  <2>5. es[f].value = tb
    <3>1. f \in 1 .. Len(es) /\ Valued(es, f) /\ es[f].key = Base(tail)
      BY <2>4 DEF EntryOf
    <3>2. HoldsElements(p, es, f, tail, tb, cl, ec, D)  BY <3>1, PartFacts
    <3> QED  BY <1>2, <3>1, <3>2 DEF HoldsElements
  <2>6. \A i \in Nat : Opened(Base(i), tail + 1, "none") => Opened(Base(i), tail, stage)
    <3>1. \A i \in Nat : Base(i) \in Nat  BY BaseIs
    <3> QED  BY <1>1, <1>3, <3>1 DEF Opened
  <2> QED  BY <1>1, <2>4, <2>5, <2>6
<1>4. CASE stage = "none" /\ ~Begins(tail)
  <2>1. Base(tail) # tail
    <3>1. tail % BlockSize # 0 /\ tail % BlockSize \in 0 .. BlockSize - 1
      BY <1>1, <1>4, BaseIs DEF Begins
    <3>2. Base(tail) + (tail % BlockSize) = tail  BY <1>1, BaseIs
    <3> QED  BY <1>1, <1>2, <3>1, <3>2, SizesAre
  <2>2. Opened(Base(tail), tail, stage)  BY <1>1, <1>2, <2>1 DEF Opened
  <2>3. PICK f : EntryOf(es, f, tail)  BY <1>1, <2>2 DEF KeptOK
  <2>4. es[f].value = tb
    <3>1. f \in 1 .. Len(es) /\ Valued(es, f) /\ es[f].key = Base(tail)
      BY <2>3 DEF EntryOf
    <3>2. HoldsElements(p, es, f, tail, tb, cl, ec, D)  BY <3>1, PartFacts
    <3> QED  BY <1>2, <3>1, <3>2 DEF HoldsElements
  <2>5. ASSUME NEW i \in Nat, Opened(Base(i), tail + 1, "none")
        PROVE  Opened(Base(i), tail, stage)
    <3>1. Base(i) \in Nat /\ Base(i) = KeyOf(i \div BlockSize) /\ i \div BlockSize \in Nat
      BY BaseIs
    <3>2. Base(i) # tail
      <4>1. SUFFICES ASSUME KeyOf(i \div BlockSize) = tail PROVE FALSE  BY <3>1
      <4>2. KeyOf(i \div BlockSize) <= tail /\ tail < KeyOf(i \div BlockSize) + BlockSize
        BY <1>1, <4>1, SizesAre
      <4>3. i \div BlockSize \in Int  BY <3>1
      <4>4. Base(tail) = KeyOf(i \div BlockSize)  BY <1>1, <4>2, <4>3, BaseIs
      <4> QED  BY <2>1, <4>1, <4>4
    <3> QED  BY <1>1, <2>5, <3>1, <3>2 DEF Opened
  <2> QED  BY <1>1, <2>3, <2>4, <2>5
<1> QED  BY <1>3, <1>4

\* The element is stored, and the tail goes on.
LEMMA PartStores ==
    ASSUME NEW p, NEW es, NEW hs, NEW tail, NEW tb, NEW stage, NEW cl, NEW ec, NEW D,
           PartOK(p, es, hs, tail, tb, stage, cl, ec, D), Distinct(es),
           stage = "linked" \/ (stage = "none" /\ ~Begins(tail)),
           NEW cl2, WritesCell(cl, cl2, tb, tail % BlockSize, <<p, tail>>)
    PROVE  PartOK(p, es, hs, tail + 1, tb, "none", cl2, ec, D)
<1>1. PICK e : EntryOf(es, e, tail) /\ es[e].value = tb  BY TailElement
<1>2. tail \in Nat /\ D \in SUBSET Nat /\ (\A i \in D : i < tail) /\ IndexOK(es, hs, tail, stage)
  BY PartFacts
<1>3. Base(tail) \in Nat /\ Base(tail) + (tail % BlockSize) = tail /\ tail % BlockSize \in 0 .. BlockSize - 1
  BY <1>2, BaseIs
<1>4. e \in 1 .. Len(es) /\ Valued(es, e) /\ es[e].key = Base(tail)
  BY <1>1 DEF EntryOf
<1>5. IndexOK(es, hs, tail + 1, "none")
  <2>1. stage = "linked" \/ (stage = "none" /\ tail % BlockSize # 0)  BY DEF Begins
  <2> QED  BY <1>2, <2>1, IndexStores
<1>6. ASSUME NEW f \in 1 .. Len(es), Valued(es, f)
      PROVE  HoldsElements(p, es, f, tail + 1, tb, cl2, ec, D)
  <2>1. HoldsElements(p, es, f, tail, tb, cl, ec, D)  BY <1>6, PartFacts
  <2>2. PICK j \in Nat : es[f].key = KeyOf(j)  BY <1>2, <1>6, IndexFacts
  <2>3. es[f].key \in Nat /\ es[f].key <= tail
    <3>1. KeyOf(j) \in Nat  BY KeysAre
    <3>2. es[f].key < tail \/ es[f].key = tail  BY <1>2, <1>6, IndexFacts
    <3> QED  BY <1>2, <2>2, <3>1, <3>2
  <2>4. ASSUME NEW r \in Elements, es[f].key + r = tail
        PROVE  f = e /\ r = tail % BlockSize
    <3>1. r \in Nat /\ r < BlockSize  BY SizesAre DEF Elements
    <3>2. KeyOf(j) <= tail /\ tail < KeyOf(j) + BlockSize
      BY <2>2, <2>3, <2>4, <3>1, SizesAre
    <3>3. j \in Int  OBVIOUS
    <3>4. Base(tail) = KeyOf(j)  BY <1>2, <3>2, <3>3, BaseIs
    <3>5. f = e  BY <1>2, <1>4, <1>6, <2>2, <3>4, IndexFacts
    <3> QED  BY <1>3, <1>4, <2>4, <3>1, <3>5
  <2>5. ASSUME NEW r \in Elements, es[f].key + r < tail + 1
        PROVE  cl2[es[f].value][r] = <<p, es[f].key + r>>
    <3>1. CASE es[f].key + r = tail  BY <1>1, <2>4, <3>1 DEF WritesCell
    <3>2. CASE es[f].key + r # tail
      <4>1. r \in Nat  BY SizesAre DEF Elements
      <4>2. es[f].key + r < tail  BY <1>2, <2>3, <2>5, <3>2, <4>1
      <4>3. cl[es[f].value][r] = <<p, es[f].key + r>>
        BY <2>1, <4>2 DEF HoldsElements
      <4>4. es[f].value # tb \/ r # tail % BlockSize
        <5>1. SUFFICES ASSUME es[f].value = tb, r = tail % BlockSize PROVE FALSE
          OBVIOUS
        <5>2. f = e  BY <1>1, <1>4, <1>6, <5>1 DEF Distinct
        <5> QED  BY <1>3, <1>4, <3>2, <5>1, <5>2
      <4>5. es[f].value \in Blocks  BY <1>2, <1>6, IndexFacts
      <4> QED  BY <4>3, <4>4, <4>5 DEF WritesCell
    <3> QED  BY <3>1, <3>2
  <2>6. ~(tail + 1 < es[f].key + BlockSize) \/ es[f].value = tb
    <3>1. tail < es[f].key + BlockSize => es[f].value = tb
      BY <2>1, <2>3 DEF HoldsElements
    <3> QED  BY <1>2, <2>3, <3>1, SizesAre
  <2> QED  BY <2>1, <2>5, <2>6 DEF HoldsElements
<1>7. KeptOK(es, tail + 1, "none", D)
  <2>1. ASSUME NEW i \in Nat, Opened(Base(i), tail + 1, "none"), i \notin D
        PROVE  \E f : EntryOf(es, f, i)
    <3>1. Opened(Base(i), tail, stage)  BY <2>1, TailElement
    <3>2. KeptOK(es, tail, stage, D)  BY PartFacts
    <3> QED  BY <2>1, <3>1, <3>2 DEF KeptOK
  <2> QED  BY <2>1 DEF KeptOK
<1>8. \A i \in D : i < tail + 1  BY <1>2
<1> QED  BY <1>2, <1>5, <1>6, <1>7, <1>8 DEF PartOK, ValuesOK

\* One element more is done, in its block only.
LEMMA DoneMore ==
    ASSUME NEW D \in SUBSET Nat, NEW i \in Nat, i \notin D
    PROVE  /\ Cardinality(DoneAt(Base(i), D \union {i})) = Cardinality(DoneAt(Base(i), D)) + 1
           /\ \A j \in Nat : KeyOf(j) # Base(i) => DoneAt(KeyOf(j), D \union {i}) = DoneAt(KeyOf(j), D)
<1>1. Base(i) \in Nat /\ Base(i) + (i % BlockSize) = i /\ i % BlockSize \in Elements
  BY BaseIs DEF Elements
<1> DEFINE r == i % BlockSize
<1>2. DoneAt(Base(i), D \union {i}) = DoneAt(Base(i), D) \union {r}
  <2>1. ASSUME NEW s \in Elements, Base(i) + s = i PROVE s = r
    BY <1>1, <2>1, SizesAre DEF Elements
  <2> QED  BY <1>1, <2>1 DEF DoneAt
<1>3. r \notin DoneAt(Base(i), D)  BY <1>1 DEF DoneAt
<1>4. IsFiniteSet(DoneAt(Base(i), D))  BY DoneFinite
<1>5. ASSUME NEW j \in Nat, KeyOf(j) # Base(i)
      PROVE  DoneAt(KeyOf(j), D \union {i}) = DoneAt(KeyOf(j), D)
  <2>1. ASSUME NEW s \in Elements, KeyOf(j) + s = i PROVE FALSE
    <3>1. KeyOf(j) \in Int /\ s \in Nat /\ s < BlockSize /\ j \in Int
      BY KeysAre, SizesAre DEF Elements
    <3>2. KeyOf(j) <= i /\ i < KeyOf(j) + BlockSize  BY <2>1, <3>1, SizesAre
    <3> QED  BY <1>5, <3>1, <3>2, BaseIs
  <2> QED  BY <2>1 DEF DoneAt
<1> HIDE DEF r
<1>6. Cardinality(DoneAt(Base(i), D) \union {r}) = Cardinality(DoneAt(Base(i), D)) + 1
  BY <1>3, <1>4, FS_AddElement
<1> QED  BY <1>2, <1>5, <1>6

\* One element more is done, and counted in its block.
LEMMA PartEmpties ==
    ASSUME NEW p, NEW es, NEW hs, NEW tail, NEW tb, NEW stage, NEW cl, NEW ec, NEW D,
           PartOK(p, es, hs, tail, tb, stage, cl, ec, D), Distinct(es),
           NEW i \in Nat, i \notin D, i < tail, NEW e, EntryOf(es, e, i),
           NEW ec2, ec2[es[e].value] = ec[es[e].value] + 1,
           \A b \in Blocks : b # es[e].value => ec2[b] = ec[b],
           NEW D2, D2 = D \union {i}
    PROVE  /\ PartOK(p, es, hs, tail, tb, stage, cl, ec2, D2)
           /\ ec[es[e].value] = BlockSize - 1 => \A r \in Elements : es[e].key + r \in D2
<1>1. e \in 1 .. Len(es) /\ Valued(es, e) /\ es[e].key = Base(i)  BY DEF EntryOf
<1>2. D \in SUBSET Nat /\ (\A j \in D : j < tail) /\ IndexOK(es, hs, tail, stage) /\ KeptOK(es, tail, stage, D)
  BY PartFacts
<1>3. D2 \in SUBSET Nat /\ \A j \in D2 : j < tail  BY <1>2
<1>4. /\ Cardinality(DoneAt(Base(i), D2)) = Cardinality(DoneAt(Base(i), D)) + 1
      /\ \A j \in Nat : KeyOf(j) # Base(i) => DoneAt(KeyOf(j), D2) = DoneAt(KeyOf(j), D)
  BY <1>2, DoneMore
<1>5. ASSUME NEW f \in 1 .. Len(es), Valued(es, f)
      PROVE  HoldsElements(p, es, f, tail, tb, cl, ec2, D2)
  <2>1. HoldsElements(p, es, f, tail, tb, cl, ec, D)  BY <1>5, PartFacts
  <2>2. CASE f = e
    <3>1. ec2[es[f].value] = Cardinality(DoneAt(es[f].key, D2))
      BY <1>1, <1>4, <2>1, <2>2 DEF HoldsElements
    <3> QED  BY <2>1, <3>1 DEF HoldsElements
  <2>3. CASE f # e
    <3>1. es[f].value # es[e].value /\ es[f].value \in Blocks
      BY <1>1, <1>2, <1>5, <2>3, IndexFacts DEF Distinct
    <3>2. es[f].key # Base(i)  BY <1>1, <1>2, <1>5, <2>3, IndexFacts
    <3>3. DoneAt(es[f].key, D2) = DoneAt(es[f].key, D)
      <4>1. PICK j \in Nat : es[f].key = KeyOf(j)  BY <1>2, <1>5, IndexFacts
      <4> QED  BY <1>4, <3>2, <4>1
    <3>4. ec2[es[f].value] = ec[es[f].value]  BY <3>1
    <3> QED  BY <2>1, <3>3, <3>4 DEF HoldsElements
  <2> QED  BY <2>2, <2>3
<1>6. KeptOK(es, tail, stage, D2)
  <2>1. D \subseteq D2  OBVIOUS
  <2> QED  BY <1>2, <2>1 DEF KeptOK
<1>7. ASSUME ec[es[e].value] = BlockSize - 1, NEW r \in Elements
      PROVE  es[e].key + r \in D2
  <2>1. HoldsElements(p, es, e, tail, tb, cl, ec, D)  BY <1>1, PartFacts
  <2>2. ec[es[e].value] = Cardinality(DoneAt(Base(i), D))
    BY <1>1, <2>1 DEF HoldsElements
  <2>3. Cardinality(DoneAt(Base(i), D2)) = Cardinality(Elements)
    <3>1. Cardinality(Elements) = BlockSize  BY DoneFinite
    <3> QED  BY <1>4, <1>7, <2>2, <3>1, SizesAre
  <2>4. IsFiniteSet(Elements) /\ DoneAt(Base(i), D2) \subseteq Elements
    BY DoneFinite
  <2>5. DoneAt(Base(i), D2) = Elements  BY <2>3, <2>4, FS_Subset
  <2> QED  BY <1>1, <2>5 DEF DoneAt
<1> QED  BY <1>2, <1>3, <1>5, <1>6, <1>7 DEF PartOK, ValuesOK

\* The entry of a block whose elements are all done is cleared.
LEMMA PartClears ==
    ASSUME NEW p, NEW es, NEW hs, NEW tail, NEW tb, NEW stage, NEW cl, NEW ec, NEW D,
           PartOK(p, es, hs, tail, tb, stage, cl, ec, D),
           NEW e \in 1 .. Len(es), \A r \in Elements : es[e].key + r \in D,
           NEW es2, es2 = WithValue(es, e, Null)
    PROVE  /\ PartOK(p, es2, hs, tail, tb, stage, cl, ec, D)
           /\ Len(es2) = Len(es) /\ es2[e].key = es[e].key /\ ~Valued(es2, e)
           /\ \A f \in 1 .. Len(es) : f # e => es2[f] = es[f]
<1>1. /\ IndexOK(es, hs, tail, stage) /\ KeptOK(es, tail, stage, D) /\ es \in Seq(Entry)
      /\ D \in SUBSET Nat /\ \A i \in D : i < tail
  BY PartFacts
<1>2. Null \in BlockOrNull  BY DEF BlockOrNull
<1>3. /\ Len(es2) = Len(es) /\ es2[e].value = Null /\ es2[e].key = es[e].key
      /\ \A f \in 1 .. Len(es) : f # e => es2[f] = es[f]
  BY <1>1, <1>2, ValueChanges
<1>4. ~Valued(es2, e)  BY <1>3 DEF Valued
<1>5. IndexOK(es2, hs, tail, stage)  BY <1>1, IndexClears
<1>6. ASSUME NEW f \in 1 .. Len(es2), Valued(es2, f)
      PROVE  HoldsElements(p, es2, f, tail, tb, cl, ec, D)
  <2>1. f # e /\ f \in 1 .. Len(es) /\ es2[f] = es[f]  BY <1>3, <1>4, <1>6
  <2>2. Valued(es, f)  BY <1>6, <2>1 DEF Valued
  <2>3. HoldsElements(p, es, f, tail, tb, cl, ec, D)  BY <2>1, <2>2, PartFacts
  <2> QED  BY <2>1, <2>3 DEF HoldsElements
<1>7. ASSUME NEW i \in Nat, Opened(Base(i), tail, stage), i \notin D
      PROVE  \E f : EntryOf(es2, f, i)
  <2>1. PICK f : EntryOf(es, f, i)  BY <1>1, <1>7 DEF KeptOK
  <2>2. f # e
    <3>1. Base(i) + (i % BlockSize) = i /\ i % BlockSize \in Elements
      BY BaseIs DEF Elements
    <3> QED  BY <1>7, <2>1, <3>1 DEF EntryOf
  <2>3. EntryOf(es2, f, i)  BY <1>3, <2>1, <2>2 DEF EntryOf, Valued
  <2> QED  BY <2>3
<1> QED  BY <1>1, <1>3, <1>4, <1>5, <1>6, <1>7 DEF PartOK, ValuesOK, KeptOK

\* A producer begins without elements.
LEMMA PartFirst ==
    ASSUME NEW p, NEW es, es = NewEntries(IndexSize), NEW tb, NEW cl, NEW ec
    PROVE  PartOK(p, es, <<FirstIndex>>, 0, tb, "none", cl, ec, {})
<1>1. IndexOK(es, <<FirstIndex>>, 0, "none")  BY IndexFirst
<1>2. \A e \in 1 .. Len(es) : ~Valued(es, e)
  <2>1. Len(es) = IndexSize /\ \A e \in 1 .. IndexSize : es[e] = NewEntry
    BY SizesAre, NewEntriesAre
  <2> QED  BY <2>1 DEF Valued, NewEntry
<1>3. KeptOK(es, 0, "none", {})  BY BaseIs DEF KeptOK, Opened
<1> QED  BY <1>1, <1>2, <1>3 DEF PartOK, ValuesOK

\* The header and its tail lead to the entry of the element.
LeadsTo(es, hs, hdr, tl, i) ==
    /\ hdr \in 1 .. Len(hs) /\ tl \in DOMAIN hs[hdr].index /\ Used(es, hs[hdr].index[tl])
    /\ \E s \in DOMAIN hs[hdr].index : EntryOf(es, hs[hdr].index[s], i)

\* The current header and its tail do, for an element that is there and not done.
LEMMA LookupLeads ==
    ASSUME NEW p, NEW es, NEW hs, NEW tail, NEW tb, NEW stage, NEW cl, NEW ec, NEW D,
           PartOK(p, es, hs, tail, tb, stage, cl, ec, D),
           NEW i \in Nat, i \notin D, i < tail
    PROVE  LeadsTo(es, hs, Len(hs), hs[Len(hs)].tail, i)
<1>1. /\ IndexOK(es, hs, tail, stage) /\ KeptOK(es, tail, stage, D)
      /\ Len(hs) \in Nat /\ Len(hs) > 0 /\ Len(es) \in Nat /\ tail \in Nat
  BY PartFacts
<1>2. Opened(Base(i), tail, stage)
  <2>1. Base(i) \in Nat /\ Base(i) <= i  BY BaseIs
  <2> QED  BY <1>1, <2>1 DEF Opened
<1>3. PICK e : EntryOf(es, e, i)  BY <1>1, <1>2 DEF KeptOK
<1>4. PICK h : h = hs[Len(hs)]  BY Zenon
<1>5. PICK n \in Nat : n = Len(es)  BY <1>1
<1>6. CurrentOK(es, h, tail, stage)  BY <1>1, <1>4 DEF IndexOK
<1>7. HeaderOK(h, n, n) /\ Bijective(View(h, n), n)  BY <1>5, <1>6 DEF CurrentOK
<1>8. DOMAIN h.index = 0 .. n - 1 /\ h.tail \in 0 .. n - 1  BY <1>7 DEF HeaderOK
<1>9. Used(es, h.index[h.tail])  BY <1>1, <1>3, <1>4, IndexFacts DEF EntryOf
<1>10. \E s \in 0 .. n - 1 : h.index[s] = e
  <2>1. e \in 1 .. n  BY <1>3, <1>5 DEF EntryOf
  <2>2. PICK d \in 0 .. n - 1 : View(h, n)[d] = e  BY <1>7, <2>1 DEF Bijective
  <2>3. View(h, n)[d] = h.index[SlotAt(h, n, d)]  BY DEF View
  <2>4. SlotAt(h, n, d) \in 0 .. n - 1
    <3>1. n \in Nat \ {0}  BY <1>7 DEF HeaderOK
    <3> QED  BY <1>8, <3>1, SlotIs
  <2> QED  BY <2>2, <2>3, <2>4
<1>11. Len(hs) \in 1 .. Len(hs)  BY <1>1
<1> QED  BY <1>3, <1>4, <1>8, <1>9, <1>10, <1>11 DEF LeadsTo

\* What FindEntry finds by them is that entry.
LEMMA LeadsFinds ==
    ASSUME NEW es, NEW hs, NEW tail, NEW stage, IndexOK(es, hs, tail, stage),
           NEW i \in Nat, NEW hdr, NEW tl, LeadsTo(es, hs, hdr, tl, i)
    PROVE  EntryOf(es, Found(es, hs[hdr], tl, i, Capacity(hs[hdr])), i)
<1>1. hdr \in 1 .. Len(hs) /\ es \in Seq(Entry) /\ Len(es) \in Nat
  BY DEF LeadsTo, IndexOK
<1>2. PICK h : h = hs[hdr]  BY Zenon
<1>3. PICK N \in Nat : N = Len(es)  BY <1>1
<1>4. PICK n \in Nat : HeaderOK(h, n, N) /\ Aligned(es, h, n)
  BY <1>1, <1>2, <1>3, HeadersAligned
<1>5. Capacity(h) = n /\ DOMAIN h.index = 0 .. n - 1  BY <1>4, CapacityIs
<1>6. tl \in 0 .. n - 1 /\ Used(es, h.index[tl])  BY <1>2, <1>5 DEF LeadsTo
<1>7. PICK s \in 0 .. n - 1 : EntryOf(es, h.index[s], i)  BY <1>2, <1>5 DEF LeadsTo
<1>8. es[h.index[s]].key = Base(i)  BY <1>7 DEF EntryOf
<1>9. Found(es, h, tl, i, n) = h.index[s]  BY <1>1, <1>4, <1>6, <1>8, FindsEntry
<1> QED  BY <1>2, <1>5, <1>7, <1>9

-----------------------------------------------------------------------------
(***************************************************************************)
(* The threads: who writes at a producer, and who reads.                    *)
(***************************************************************************)
\* The places of enqueue() where the entry has no block yet, and those where it
\* has an entry.
Unlinked  == {"requisition", "freeList", "create", "rewind", "link"}
Inserted  == Unlinked \union {"store"}
Enqueuing == Inserted \union {"enqueue"}

\* The places of dequeue() with the index of an element, and all of them.
Readings  == {"lookup", "entry", "read", "empty"}
Dequeuing == {"check", "count", "claim", "tail", "overcommit", "unindex"} \union Readings

\* The stage of a producer whose thread is at the place c.
StageAt(c) == IF c \in Unlinked THEN "unlinked" ELSE IF c = "store" THEN "linked" ELSE "none"

\* The producers that a thread has to do with: c is its place, l its locals, pr its
\* own producer, st the stages, and cr the number of producers.
RoleOK(c, l, pr, st, cr) ==
    /\ DOMAIN l = DOMAIN Blank
    /\ pr \in 0 .. cr
    /\ pr # 0 => st[pr] = StageAt(c)
    /\ c \in Enqueuing => l.p = pr /\ pr # 0
    /\ c \in Dequeuing => l.p \in 1 .. cr
    /\ c = "score" => l.ptr \in 0 .. cr /\ l.best \in 0 .. cr
    /\ c = "idle" => l.best = 0

\* What a thread in enqueue() has, with the headers hs of its producer.
WriterOK(c, l, hs) ==
    /\ c \in Unlinked => l.ent = TailEntry(hs[Len(hs)])
    /\ c = "link" => l.blk \in Blocks

\* What one in dequeue() has, with the entries, the headers, the head and the
\* elements done of its producer.
ReaderOK(c, l, es, hs, hd, D) ==
    /\ c \in Readings => l.idx \in Nat /\ l.idx < hd /\ l.idx \notin D
    /\ c = "entry" => LeadsTo(es, hs, l.hdr, l.tl, l.idx)
    /\ c \in {"read", "empty"} => EntryOf(es, l.ent, l.idx) /\ es[l.ent].value = l.blk
    /\ c = "empty" => l.el = <<l.p, l.idx>>
    /\ c = "unindex" => /\ l.ent \in 1 .. Len(es) /\ Valued(es, l.ent) /\ es[l.ent].value = l.blk
                        /\ \A r \in Elements : es[l.ent].key + r \in D

\* No two threads read one element, or give up one block.
BothOK(c, l, d, m) ==
    l.p = m.p => /\ ~(c \in Readings /\ d \in Readings /\ l.idx = m.idx)
                 /\ ~(c = "unindex" /\ d = "unindex" /\ l.ent = m.ent)

RolesOK(st) == \A t \in Threads : RoleOK(pc[t], loc[t], prodOf[t], st, created)

WritersOK == \A t \in Threads : WriterOK(pc[t], loc[t], headers[loc[t].p])

ReadersOK(dn) ==
    \A t \in Threads : ReaderOK(pc[t], loc[t], entries[loc[t].p], headers[loc[t].p],
                                headIndex[loc[t].p], dn[loc[t].p])

ReadersApart == \A t, u \in Threads : t # u => BothOK(pc[t], loc[t], pc[u], loc[u])

CallsOK == \A t \in Threads : pc[t] \notin {"freeList", "adding"} => fl[t].at = "none"

TablesOK ==
    /\ DOMAIN entries = Producers /\ DOMAIN headers = Producers
    /\ DOMAIN tailBlock = Producers /\ DOMAIN prodOf = Threads
    /\ DOMAIN cell = Blocks /\ \A b \in Blocks : DOMAIN cell[b] = Elements
    /\ DOMAIN elementsCompletelyDequeued = Blocks

ProducersOK(st, dn) ==
    /\ DOMAIN st = Producers /\ DOMAIN dn = Producers
    /\ inactive \in SUBSET (1 .. created)
    /\ \A p \in inactive : st[p] = "none" /\ \A t \in Threads : prodOf[t] # p
    /\ \A t, u \in Threads : prodOf[t] = prodOf[u] /\ prodOf[t] # 0 => t = u
    /\ \A p \in Producers : \A i \in dn[p] : i < headIndex[p]
    /\ \A p \in Producers : p > created =>
          /\ entries[p] = <<>> /\ headers[p] = <<>> /\ tailIndex[p] = 0 /\ headIndex[p] = 0
          /\ st[p] = "none" /\ dn[p] = {}

PartsOK(st, dn) ==
    \A p \in 1 .. created :
        PartOK(p, entries[p], headers[p], tailIndex[p], tailBlock[p], st[p], cell,
               elementsCompletelyDequeued, dn[p])

-----------------------------------------------------------------------------
(***************************************************************************)
(* The places of the blocks.                                                *)
(***************************************************************************)
SourcesOK ==
    /\ poolIndex \in Nat /\ initialBlockPoolSize \in 0 .. Cardinality(Blocks)
    /\ heapFree \in SUBSET Blocks

InPool(b)        == b > poolIndex /\ b <= initialBlockPoolSize
OnHeap(b)        == b \in heapFree
Linking(t, b)    == pc[t] = "link" /\ loc[t].blk = b
Indexed(p, e, b) == e \in 1 .. Len(entries[p]) /\ entries[p][e].value = b

\* Block b is in the place x.
Stands(b, x) ==
    \/ x = <<"pool", 0, 0>> /\ InPool(b)
    \/ x = <<"heap", 0, 0>> /\ OnHeap(b)
    \/ x = <<"list", 0, 0>> /\ Inside(b)
    \/ \E t \in Threads : x = <<"link", t, 0>> /\ Linking(t, b)
    \/ \E p \in Producers : \E e \in Nat : x = <<"index", p, e>> /\ Indexed(p, e, b)

\* Every block is in one place.
PlacedAt(b) == \E x : Stands(b, x) /\ \A y : Stands(b, y) => y = x
Placed == \A b \in Blocks : PlacedAt(b)

\* The stages of the producers, and the elements that are done.
BInvOf(st, dn) ==
    /\ FLInv /\ SourcesOK /\ Placed /\ CallsOK
    /\ TablesOK /\ ProducersOK(st, dn) /\ PartsOK(st, dn)
    /\ RolesOK(st) /\ WritersOK /\ ReadersOK(dn) /\ ReadersApart

BInv == \E st, dn : BInvOf(st, dn)

\* The invariant with its two witnesses goes over to the one without.
LEMMA BInvFrom ==
    ASSUME NEW st, NEW dn
    PROVE  BInvOf(st, dn)' => BInv'
BY DEF BInv

-----------------------------------------------------------------------------
\* A block that stays where it is.
Stays(b) ==
    /\ InPool(b)' <=> InPool(b)
    /\ OnHeap(b)' <=> OnHeap(b)
    /\ Inside(b)' <=> Inside(b)
    /\ \A t \in Threads : Linking(t, b)' <=> Linking(t, b)
    /\ \A p \in Producers, e \in Nat : Indexed(p, e, b)' <=> Indexed(p, e, b)

\* It is in one place again.
LEMMA StaysPlaced ==
    ASSUME NEW b, PlacedAt(b), Stays(b)
    PROVE  PlacedAt(b)'
<1>1. \A x : Stands(b, x)' <=> Stands(b, x)
  <2>1. ASSUME NEW x PROVE Stands(b, x)' <=> Stands(b, x)  BY DEF Stays, Stands
  <2> QED  BY <2>1
<1>2. PICK x : Stands(b, x) /\ \A y : Stands(b, y) => y = x  BY DEF PlacedAt
<1>3. Stands(b, x)' /\ \A y : Stands(b, y)' => y = x  BY <1>1, <1>2
<1> QED  BY <1>3 DEF PlacedAt

\* One block moves from x to y, and the others stay.
LEMMA MovesPlaced ==
    ASSUME Placed, NEW b \in Blocks, NEW x, NEW y, Stands(b, x), Stands(b, y)',
           \A z : Stands(b, z)' => z = y \/ (z # x /\ Stands(b, z)),
           \A c \in Blocks : c # b => Stays(c)
    PROVE  Placed'
<1>1. PICK w : Stands(b, w) /\ \A z : Stands(b, z) => z = w  BY DEF Placed, PlacedAt
<1>2. \A z : Stands(b, z)' => z = y  BY <1>1
<1>3. PlacedAt(b)'  BY <1>2 DEF PlacedAt
<1>4. ASSUME NEW c \in Blocks, c # b PROVE PlacedAt(c)'
  <2>1. PlacedAt(c) /\ Stays(c)  BY <1>4 DEF Placed
  <2> QED  BY <2>1, StaysPlaced
<1>5. \A c \in Blocks : PlacedAt(c)'  BY <1>3, <1>4
<1> QED  BY <1>5 DEF Placed

\* What one place says of another.
LEMMA PlacedFacts ==
    ASSUME Placed, NEW b \in Blocks
    PROVE  /\ \A x, y : Stands(b, x) /\ Stands(b, y) => x = y
           /\ InPool(b) => Stands(b, <<"pool", 0, 0>>)
           /\ OnHeap(b) => Stands(b, <<"heap", 0, 0>>)
           /\ Inside(b) => Stands(b, <<"list", 0, 0>>)
           /\ \A t \in Threads : Linking(t, b) => Stands(b, <<"link", t, 0>>)
           /\ \A p \in Producers, e \in Nat : Indexed(p, e, b) => Stands(b, <<"index", p, e>>)
<1>1. PICK w : Stands(b, w) /\ \A z : Stands(b, z) => z = w  BY DEF Placed, PlacedAt
<1>2. \A x, y : Stands(b, x) /\ Stands(b, y) => x = y  BY <1>1
<1>3. /\ InPool(b) => Stands(b, <<"pool", 0, 0>>)
      /\ OnHeap(b) => Stands(b, <<"heap", 0, 0>>)
      /\ Inside(b) => Stands(b, <<"list", 0, 0>>)
  BY DEF Stands
<1>4. \A t \in Threads : Linking(t, b) => Stands(b, <<"link", t, 0>>)  BY DEF Stands
<1>5. \A p \in Producers, e \in Nat : Indexed(p, e, b) => Stands(b, <<"index", p, e>>)
  BY DEF Stands
<1> QED  BY <1>2, <1>3, <1>4, <1>5

\* One entry of one producer has a block, and then nothing else has it.
LEMMA IndexedOnce ==
    ASSUME Placed, NEW b \in Blocks
    PROVE  /\ \A p, q \in Producers : \A e, f \in Nat :
                 Indexed(p, e, b) /\ Indexed(q, f, b) => p = q /\ e = f
           /\ \A p \in Producers : \A e \in Nat : Indexed(p, e, b) =>
                 ~InPool(b) /\ ~OnHeap(b) /\ ~Inside(b) /\ \A t \in Threads : ~Linking(t, b)
           /\ \A t \in Threads : Linking(t, b) => ~InPool(b) /\ ~OnHeap(b) /\ ~Inside(b)
           /\ \A t, u \in Threads : Linking(t, b) /\ Linking(u, b) => t = u
           /\ Inside(b) => ~InPool(b) /\ ~OnHeap(b)
           /\ ~(InPool(b) /\ OnHeap(b))
<1>1. \A p, q \in Producers : \A e, f \in Nat :
          Indexed(p, e, b) /\ Indexed(q, f, b) => p = q /\ e = f
  <2>1. ASSUME NEW p \in Producers, NEW q \in Producers, NEW e \in Nat, NEW f \in Nat,
               Indexed(p, e, b), Indexed(q, f, b)
        PROVE  p = q /\ e = f
    <3>1. Stands(b, <<"index", p, e>>) /\ Stands(b, <<"index", q, f>>)
      BY <2>1, PlacedFacts
    <3>2. <<"index", p, e>> = <<"index", q, f>>  BY <3>1, PlacedFacts
    <3> QED  BY <3>2
  <2> QED  BY <2>1
<1>2. ASSUME NEW p \in Producers, NEW e \in Nat, Indexed(p, e, b)
      PROVE  ~InPool(b) /\ ~OnHeap(b) /\ ~Inside(b) /\ \A t \in Threads : ~Linking(t, b)
  <2>1. \A y : Stands(b, y) => y = <<"index", p, e>>  BY <1>2, PlacedFacts
  <2>2. ~InPool(b) /\ ~OnHeap(b) /\ ~Inside(b)  BY <2>1, PlacedFacts
  <2>3. ASSUME NEW t \in Threads PROVE ~Linking(t, b)
    <3>1. <<"link", t, 0>> # <<"index", p, e>>  OBVIOUS
    <3> QED  BY <2>1, <3>1, PlacedFacts
  <2> QED  BY <2>2, <2>3
<1>3. ASSUME NEW t \in Threads, Linking(t, b)
      PROVE  /\ ~InPool(b) /\ ~OnHeap(b) /\ ~Inside(b)
             /\ \A u \in Threads : Linking(u, b) => t = u
  <2>1. \A y : Stands(b, y) => y = <<"link", t, 0>>  BY <1>3, PlacedFacts
  <2>2. ~InPool(b) /\ ~OnHeap(b) /\ ~Inside(b)
    <3>1. <<"link", t, 0>> # <<"pool", 0, 0>> /\ <<"link", t, 0>> # <<"heap", 0, 0>> /\ <<"link", t, 0>> # <<"list", 0, 0>>
      OBVIOUS
    <3> QED  BY <2>1, <3>1, PlacedFacts
  <2>3. ASSUME NEW u \in Threads, Linking(u, b) PROVE t = u
    <3>1. <<"link", u, 0>> = <<"link", t, 0>>  BY <2>1, <2>3, PlacedFacts
    <3> QED  BY <3>1
  <2> QED  BY <2>2, <2>3
<1>4. (Inside(b) => ~InPool(b) /\ ~OnHeap(b)) /\ ~(InPool(b) /\ OnHeap(b))
  <2>1. <<"list", 0, 0>> # <<"pool", 0, 0>> /\ <<"list", 0, 0>> # <<"heap", 0, 0>> /\ <<"pool", 0, 0>> # <<"heap", 0, 0>>
    OBVIOUS
  <2> QED  BY <2>1, PlacedFacts
<1> QED  BY <1>1, <1>2, <1>3, <1>4

-----------------------------------------------------------------------------
(***************************************************************************)
(* Steps that leave the producers and the blocks' contents alone.           *)
(***************************************************************************)
\* The invariant's parts.
LEMMA BInvParts ==
    ASSUME NEW st, NEW dn, BInvOf(st, dn)
    PROVE  /\ FLInv /\ SourcesOK /\ Placed /\ CallsOK
           /\ TablesOK /\ ProducersOK(st, dn) /\ PartsOK(st, dn)
           /\ RolesOK(st) /\ WritersOK /\ ReadersOK(dn) /\ ReadersApart
BY DEF BInvOf

\* What holds of one thread.
LEMMA ThreadIs ==
    ASSUME NEW st, NEW dn, BInvOf(st, dn), NEW t \in Threads
    PROVE  /\ RoleOK(pc[t], loc[t], prodOf[t], st, created)
           /\ WriterOK(pc[t], loc[t], headers[loc[t].p])
           /\ ReaderOK(pc[t], loc[t], entries[loc[t].p], headers[loc[t].p],
                       headIndex[loc[t].p], dn[loc[t].p])
           /\ \A u \in Threads : u # t => BothOK(pc[t], loc[t], pc[u], loc[u])
           /\ DOMAIN loc[t] = DOMAIN Blank
BY DEF BInvOf, RolesOK, WritersOK, ReadersOK, ReadersApart, RoleOK

\* The free list stays as it is.
LEMMA StillKeeps ==
    ASSUME FLInv, NEW t \in Threads, UNCHANGED flVars
    PROVE  FLKept
<1>1. CallOK(fl[t]) /\ LinkOK(fl[t], flNext) /\ DOMAIN fl = Threads /\ fl = [u \in Threads |-> fl[u]]
  BY CallIs DEF FLInv, FLTypeOK
<1>2. PICK c : c = fl[t]  BY Zenon
<1>3. fl' = [fl EXCEPT ![t] = c] /\ UNCHANGED <<flHead, flRefs, flShould, flNext>>
  BY <1>1, <1>2 DEF flVars
<1>4. CallOK(c) /\ LinkOK(c, flNext)  BY <1>1, <1>2
<1>5. \A b \in Blocks : /\ Weight(c, b) = Weight(fl[t], b)
                        /\ Holds(c, b) <=> Holds(fl[t], b)
                        /\ Links(c, b) <=> Links(fl[t], b)
  BY <1>2
<1> QED  BY <1>3, <1>4, <1>5, OnlyTheCall

\* What two threads may not do does not depend on their order.
LEMMA BothTurns ==
    ASSUME NEW c, NEW l, NEW d, NEW m, BothOK(c, l, d, m)
    PROVE  BothOK(d, m, c, l)
BY DEF BothOK

\* The threads are apart again when t is apart from the others.
LEMMA ApartAgain ==
    ASSUME ReadersApart, NEW t \in Threads, OnlyMoves(t),
           \A u \in Threads : u # t => BothOK(pc'[t], loc'[t], pc[u], loc[u])
    PROVE  ReadersApart'
<1>1. ASSUME NEW u \in Threads, NEW v \in Threads, u # v
      PROVE  BothOK(pc'[u], loc'[u], pc'[v], loc'[v])
  <2>1. CASE u = t  BY <1>1, <2>1 DEF OnlyMoves
  <2>2. CASE v = t
    <3>1. BothOK(pc'[t], loc'[t], pc[u], loc[u])  BY <1>1, <2>2
    <3>2. BothOK(pc[u], loc[u], pc'[t], loc'[t])  BY <3>1, BothTurns
    <3> QED  BY <1>1, <2>2, <3>2 DEF OnlyMoves
  <2>3. CASE u # t /\ v # t  BY <1>1, <2>3 DEF OnlyMoves, ReadersApart
  <2> QED  BY <2>1, <2>2, <2>3
<1> QED  BY <1>1 DEF ReadersApart

\* A call of the free list belongs to a thread at its place.
LEMMA CallsAgain ==
    ASSUME CallsOK, NEW t \in Threads, OnlyMoves(t),
           \A u \in Threads : u # t => fl'[u] = fl[u],
           pc'[t] \in {"freeList", "adding"} \/ fl'[t].at = "none"
    PROVE  CallsOK'
BY DEF CallsOK, OnlyMoves

CalmData ==
    /\ UNCHANGED <<entries, headers, tailIndex, headIndex, tailBlock, cell,
                   elementsCompletelyDequeued>>
    /\ UNCHANGED <<created, inactive, prodOf, initialBlockPoolSize>>

\* A step of t that changes no more than the sources of the blocks.
LEMMA CalmKeeps ==
    ASSUME NEW st, NEW dn, BInvOf(st, dn), NEW t \in Threads, OnlyMoves(t), CalmData,
           RoleOK(pc'[t], loc'[t], prodOf[t], st, created),
           WriterOK(pc'[t], loc'[t], headers[loc'[t].p]),
           ReaderOK(pc'[t], loc'[t], entries[loc'[t].p], headers[loc'[t].p],
                    headIndex[loc'[t].p], dn[loc'[t].p]),
           \A u \in Threads : u # t => BothOK(pc'[t], loc'[t], pc[u], loc[u]),
           FLInv', SourcesOK', Placed', CallsOK'
    PROVE  BInvOf(st, dn)'
<1>1. ReadersApart'  BY BInvParts, ApartAgain
<1>2. TablesOK'  BY BInvParts DEF CalmData, TablesOK
<1>3. ProducersOK(st, dn)'  BY BInvParts DEF CalmData, ProducersOK
<1>4. PartsOK(st, dn)'  BY BInvParts DEF CalmData, PartsOK
<1>5. RolesOK(st)'
  <2>1. ASSUME NEW u \in Threads PROVE RoleOK(pc'[u], loc'[u], prodOf'[u], st, created')
    <3>1. CASE u = t  BY <3>1 DEF CalmData
    <3>2. CASE u # t
      <4>1. RoleOK(pc[u], loc[u], prodOf[u], st, created)  BY ThreadIs
      <4> QED  BY <3>2, <4>1 DEF OnlyMoves, CalmData
    <3> QED  BY <3>1, <3>2
  <2> QED  BY <2>1 DEF RolesOK
<1>6. WritersOK'
  <2>1. ASSUME NEW u \in Threads PROVE WriterOK(pc'[u], loc'[u], headers'[loc'[u].p])
    <3>1. CASE u = t  BY <3>1 DEF CalmData
    <3>2. CASE u # t
      <4>1. WriterOK(pc[u], loc[u], headers[loc[u].p])  BY ThreadIs
      <4> QED  BY <3>2, <4>1 DEF OnlyMoves, CalmData
    <3> QED  BY <3>1, <3>2
  <2> QED  BY <2>1 DEF WritersOK
<1>7. ReadersOK(dn)'
  <2>1. ASSUME NEW u \in Threads
        PROVE  ReaderOK(pc'[u], loc'[u], entries'[loc'[u].p], headers'[loc'[u].p],
                        headIndex'[loc'[u].p], dn[loc'[u].p])
    <3>1. CASE u = t  BY <3>1 DEF CalmData
    <3>2. CASE u # t
      <4>1. ReaderOK(pc[u], loc[u], entries[loc[u].p], headers[loc[u].p],
                     headIndex[loc[u].p], dn[loc[u].p])
        BY ThreadIs
      <4> QED  BY <3>2, <4>1 DEF OnlyMoves, CalmData
    <3> QED  BY <3>1, <3>2
  <2> QED  BY <2>1 DEF ReadersOK
<1> QED  BY <1>1, <1>2, <1>3, <1>4, <1>5, <1>6, <1>7 DEF BInvOf

\* The blocks stay where they are when no thread begins or ends to link one, and the
\* sources and the values of the entries stay.
LEMMA CalmPlaced ==
    ASSUME Placed, NEW t \in Threads, OnlyMoves(t), pc[t] # "link", pc'[t] # "link",
           UNCHANGED <<poolIndex, initialBlockPoolSize, heapFree>>,
           \A b \in Blocks : Inside(b)' <=> Inside(b),
           \A b \in Blocks, p \in Producers, e \in Nat : Indexed(p, e, b)' <=> Indexed(p, e, b)
    PROVE  Placed'
<1>1. ASSUME NEW b \in Blocks PROVE PlacedAt(b)'
  <2>1. InPool(b)' <=> InPool(b)  BY DEF InPool
  <2>2. OnHeap(b)' <=> OnHeap(b)  BY DEF OnHeap
  <2>3. \A u \in Threads : Linking(u, b)' <=> Linking(u, b)
    BY DEF Linking, OnlyMoves
  <2>4. Stays(b)  BY <2>1, <2>2, <2>3 DEF Stays
  <2>5. PlacedAt(b)  BY DEF Placed
  <2> QED  BY <2>4, <2>5, StaysPlaced
<1> QED  BY <1>1 DEF Placed

\* Entries that do not change have the same blocks.
LEMMA SameIndexed ==
    ASSUME entries' = entries
    PROVE  \A b, p, e : Indexed(p, e, b)' <=> Indexed(p, e, b)
BY DEF Indexed

\* A step of t to a place where it has nothing in hand.
Plain == {"idle", "enqueue", "score", "check", "count", "claim", "tail", "overcommit", "adding"}

\* There it has nothing to be careful with.
LEMMA PlainOK ==
    ASSUME NEW c \in Plain, NEW l
    PROVE  /\ \A hs : WriterOK(c, l, hs)
           /\ \A es, hs, hd, D : ReaderOK(c, l, es, hs, hd, D)
           /\ \A d, m : BothOK(c, l, d, m)
           /\ StageAt(c) = "none"
<1>1. c \notin Unlinked /\ c \notin Readings /\ c # "link" /\ c # "unindex" /\ c # "store"
      /\ c # "entry" /\ c # "empty" /\ c \notin {"read", "empty"}
  BY DEF Plain, Unlinked, Readings
<1>2. \A hs : WriterOK(c, l, hs)  BY <1>1 DEF WriterOK
<1>3. \A es, hs, hd, D : ReaderOK(c, l, es, hs, hd, D)  BY <1>1 DEF ReaderOK
<1>4. \A d, m : BothOK(c, l, d, m)  BY <1>1 DEF BothOK
<1> QED  BY <1>1, <1>2, <1>3, <1>4 DEF StageAt

\* Such a step keeps the invariant.
LEMMA PlainKeeps ==
    ASSUME NEW st, NEW dn, BInvOf(st, dn), NEW t \in Threads, OnlyMoves(t), CalmData,
           UNCHANGED <<poolIndex, heapFree>>, UNCHANGED flVars,
           pc[t] # "link", pc'[t] \in Plain, fl[t].at = "none",
           RoleOK(pc'[t], loc'[t], prodOf[t], st, created)
    PROVE  BInvOf(st, dn)'
<1>1. WriterOK(pc'[t], loc'[t], headers[loc'[t].p])  BY PlainOK
<1>2. ReaderOK(pc'[t], loc'[t], entries[loc'[t].p], headers[loc'[t].p],
               headIndex[loc'[t].p], dn[loc'[t].p])
  BY PlainOK
<1>3. \A u \in Threads : u # t => BothOK(pc'[t], loc'[t], pc[u], loc[u])  BY PlainOK
<1>4. FLInv /\ SourcesOK /\ Placed /\ CallsOK  BY BInvParts
<1>5. FLInv' /\ \A b \in Blocks : Inside(b)' <=> Inside(b)
  BY <1>4, StillKeeps DEF FLKept
<1>6. SourcesOK'  BY <1>4 DEF SourcesOK, CalmData
<1>7. Placed'
  <2>1. \A b \in Blocks, p \in Producers, e \in Nat : Indexed(p, e, b)' <=> Indexed(p, e, b)
    BY SameIndexed DEF CalmData
  <2>2. pc'[t] # "link"  BY DEF Plain
  <2>3. UNCHANGED <<poolIndex, initialBlockPoolSize, heapFree>>  BY DEF CalmData
  <2> QED  BY <1>4, <1>5, <2>1, <2>2, <2>3, CalmPlaced
<1>8. CallsOK'
  <2>1. \A u \in Threads : u # t => fl'[u] = fl[u]  BY DEF flVars
  <2>2. fl'[t].at = "none"  BY DEF flVars
  <2> QED  BY <1>4, <2>1, <2>2, CallsAgain
<1> QED  BY <1>1, <1>2, <1>3, <1>5, <1>6, <1>7, <1>8, CalmKeeps

\* The locals of a thread.
LocalNames == {"p", "over", "my", "idx", "hdr", "tl", "ent", "blk", "el", "ptr", "best", "size", "more"}

\* They start as zero.
LEMMA BlankIs ==
    /\ DOMAIN Blank = LocalNames /\ Blank.best = 0 /\ Blank.ptr = 0 /\ Blank.p = 0
    /\ \A b, e, p : LET r == [Blank EXCEPT !.best = b, !.more = e, !.p = p] IN
          DOMAIN r = LocalNames /\ r.p = p
    /\ \A b, p : LET r == [Blank EXCEPT !.best = b, !.p = p] IN
          DOMAIN r = LocalNames /\ r.p = p
BY DEF Blank, LocalNames

\* A thread that is not about to insert a block goes to a place where it has nothing
\* in hand.
LEMMA RolePlain ==
    ASSUME NEW c, NEW l, NEW pr, NEW st, NEW cr, RoleOK(c, l, pr, st, cr), c \notin Inserted,
           NEW d \in Plain, NEW m, DOMAIN m = LocalNames,
           d = "enqueue" => m.p = pr /\ pr # 0,
           d \in {"check", "count", "claim", "tail", "overcommit"} => m.p \in 1 .. cr,
           d = "score" => m.ptr \in 0 .. cr /\ m.best \in 0 .. cr,
           d = "idle" => m.best = 0
    PROVE  RoleOK(d, m, pr, st, cr)
<1>1. StageAt(d) = "none"  BY PlainOK
<1>2. StageAt(c) = "none"  BY DEF StageAt, Inserted
<1>3. d \in Enqueuing => d = "enqueue"  BY DEF Plain, Enqueuing, Inserted, Unlinked
<1>4. d \in Dequeuing => d \in {"check", "count", "claim", "tail", "overcommit"}
  BY DEF Plain, Dequeuing, Readings
<1> QED  BY <1>1, <1>2, <1>3, <1>4, BlankIs DEF RoleOK

\* The thread has left its call.
LEMMA ReturnRole ==
    ASSUME Shape, NEW st, NEW t \in Threads, RoleOK(pc[t], loc[t], prodOf[t], st, created),
           pc[t] \notin Inserted, Return(t)
    PROVE  OnlyMoves(t) /\ pc'[t] \in Plain /\ RoleOK(pc'[t], loc'[t], prodOf[t], st, created)
<1>1. OnlyMoves(t) /\ pc'[t] = "idle"  BY ReturnMoves
<1>2. loc'[t] = Blank  BY DEF Return, Shape
<1>3. "idle" \in Plain  BY DEF Plain
<1> QED  BY <1>1, <1>2, <1>3, BlankIs, RolePlain

\* It has, or it goes on with another producer.
LEMMA TryNextRole ==
    ASSUME Shape, CreatedOK, NEW st, NEW t \in Threads,
           RoleOK(pc[t], loc[t], prodOf[t], st, created),
           pc[t] \in Dequeuing, TryNext(t)
    PROVE  OnlyMoves(t) /\ pc'[t] \in Plain /\ RoleOK(pc'[t], loc'[t], prodOf[t], st, created)
<1>1. pc[t] \notin Inserted  BY DEF Dequeuing, Readings, Inserted, Unlinked
<1>2. CASE Return(t)  BY <1>1, <1>2, ReturnRole
<1>3. CASE ~Return(t)
  <2>1. /\ Goto(t, "check")
        /\ \E q \in {p \in 1 .. (IF loc[t].more THEN loc[t].p - 1 ELSE created) : p # loc[t].best} :
              loc' = [loc EXCEPT ![t] = [Blank EXCEPT !.best = loc[t].best, !.more = TRUE, !.p = q]]
    BY <1>3, Zenon DEF TryNext
  <2>2. PICK q \in {p \in 1 .. (IF loc[t].more THEN loc[t].p - 1 ELSE created) : p # loc[t].best} :
              loc' = [loc EXCEPT ![t] = [Blank EXCEPT !.best = loc[t].best, !.more = TRUE, !.p = q]]
    BY <2>1, Zenon
  <2>3. loc[t].p \in 1 .. created /\ created \in Nat  BY DEF RoleOK, CreatedOK
  <2>4. q \in 1 .. created  BY <2>3
  <2>5. pc' = [pc EXCEPT ![t] = "check"]  BY <2>1 DEF Goto
  <2>6. OnlyMoves(t) /\ pc'[t] = "check"  BY <2>2, <2>5 DEF OnlyMoves, Shape
  <2>7. PICK r : r = [Blank EXCEPT !.best = loc[t].best, !.more = TRUE, !.p = q]
    OBVIOUS
  <2>8. DOMAIN r = LocalNames /\ r.p = q  BY <2>7, BlankIs
  <2>9. loc'[t] = r  BY <2>2, <2>7 DEF Shape
  <2>10. "check" \in Plain  BY DEF Plain
  <2>11. RoleOK("check", r, prodOf[t], st, created)
    BY <1>1, <2>4, <2>8, <2>10, RolePlain
  <2> QED  BY <2>6, <2>9, <2>10, <2>11
<1> QED  BY <1>2, <1>3

\* The steps of try_dequeue() that only look, claim or give up.
Looks(t) ==
    \/ BeginDequeue(t) \/ Score(t) \/ LoadOvercommit(t) \/ Check(t) \/ Claim(t)
    \/ (CheckTail(t) /\ ~(loc[t].my - loc[t].over < tailIndex[loc[t].p]))
    \/ Overcommit(t) \/ IndexNotGrown(t) \/ Added(t)

\* What they leave alone.
LEMMA LooksLeave ==
    ASSUME NEW t \in Threads, Looks(t)
    PROVE  /\ CalmData /\ UNCHANGED <<poolIndex, heapFree>> /\ UNCHANGED flVars
           /\ pc[t] \notin Inserted /\ pc[t] # "freeList"
           /\ pc[t] = "adding" => fl[t].at = "none"
<1> USE DEF At, CalmData, counters, blockSrc, prodList, indexVars, blockVars, DequeueLeaves,
            Inserted, Unlinked
<1>1. CASE BeginDequeue(t)  BY <1>1 DEF BeginDequeue
<1>2. CASE Score(t)  BY <1>2 DEF Score
<1>3. CASE LoadOvercommit(t)  BY <1>3 DEF LoadOvercommit
<1>4. CASE Check(t)  BY <1>4 DEF Check
<1>5. CASE Claim(t)  BY <1>5 DEF Claim
<1>6. CASE CheckTail(t) /\ ~(loc[t].my - loc[t].over < tailIndex[loc[t].p])
  BY <1>6 DEF CheckTail
<1>7. CASE Overcommit(t)  BY <1>7 DEF Overcommit
<1>8. CASE IndexNotGrown(t)  BY <1>8 DEF IndexNotGrown
<1>9. CASE Added(t)  BY <1>9 DEF Added, FLAt
<1> QED  BY <1>1, <1>2, <1>3, <1>4, <1>5, <1>6, <1>7, <1>8, <1>9 DEF Looks

\* Where they lead.
LEMMA LooksRole ==
    ASSUME Shape, CreatedOK, NEW st, NEW t \in Threads,
           RoleOK(pc[t], loc[t], prodOf[t], st, created), Looks(t)
    PROVE  OnlyMoves(t) /\ pc'[t] \in Plain /\ RoleOK(pc'[t], loc'[t], prodOf[t], st, created)
<1>0. pc[t] \notin Inserted  BY LooksLeave
<1>a. DOMAIN loc[t] = LocalNames /\ created \in Nat
  BY BlankIs DEF RoleOK, CreatedOK
<1>b. {"score", "check", "count", "claim", "tail", "overcommit"} \subseteq Plain
  BY DEF Plain
<1>c. {"check", "count", "claim", "tail", "overcommit"} \subseteq Dequeuing
  BY DEF Dequeuing
<1>1. CASE BeginDequeue(t)
  <2>1. pc[t] = "idle" /\ pc' = [pc EXCEPT ![t] = "score"] /\ loc' = [loc EXCEPT ![t].ptr = created]
    BY <1>1 DEF BeginDequeue, At, Goto
  <2>2. OnlyMoves(t) /\ pc'[t] = "score"  BY <2>1 DEF OnlyMoves, Shape
  <2>3. DOMAIN loc'[t] = LocalNames /\ loc'[t].ptr = created /\ loc'[t].best = loc[t].best
    BY <1>a, <2>1 DEF Shape, LocalNames
  <2>4. loc[t].best = 0  BY <2>1 DEF RoleOK
  <2> QED  BY <1>0, <1>a, <1>b, <2>2, <2>3, <2>4, RolePlain
<1>2. CASE Score(t)
  <2>1. pc[t] = "score"  BY <1>2 DEF Score, At
  <2>2. loc[t].ptr \in 0 .. created /\ loc[t].best \in 0 .. created
    BY <2>1 DEF RoleOK
  <2>3. \/ /\ pc' = pc /\ loc[t].ptr > 0
           /\ \E b \in {loc[t].best, loc[t].ptr} : \E z :
                 loc' = [loc EXCEPT ![t].ptr = @ - 1, ![t].best = b, ![t].size = z]
        \/ /\ Goto(t, "check") /\ loc[t].best # 0
           /\ loc' = [loc EXCEPT ![t] = [Blank EXCEPT !.best = loc[t].best, !.p = loc[t].best]]
        \/ Return(t)
    <3>1. CASE /\ loc[t].ptr > 0 /\ UNCHANGED pc
               /\ loc' = [loc EXCEPT ![t].ptr = @ - 1,
                             ![t].best = IF SizeApprox(loc[t].ptr) > loc[t].size THEN loc[t].ptr ELSE @,
                             ![t].size = IF SizeApprox(loc[t].ptr) > loc[t].size
                                         THEN SizeApprox(loc[t].ptr) ELSE @]
      <4>1. CASE SizeApprox(loc[t].ptr) > loc[t].size  BY <3>1, <4>1
      <4>2. CASE ~(SizeApprox(loc[t].ptr) > loc[t].size)  BY <3>1, <4>2
      <4> QED  BY <4>1, <4>2
    <3> QED  BY <1>2, <3>1 DEF Score
  <2>4. ASSUME pc' = pc, loc[t].ptr > 0, NEW b \in {loc[t].best, loc[t].ptr}, NEW z,
               loc' = [loc EXCEPT ![t].ptr = @ - 1, ![t].best = b, ![t].size = z]
        PROVE  OnlyMoves(t) /\ pc'[t] \in Plain /\ RoleOK(pc'[t], loc'[t], prodOf[t], st, created)
    <3>1. OnlyMoves(t) /\ pc'[t] = "score"  BY <2>1, <2>4 DEF OnlyMoves, Shape
    <3>2. DOMAIN loc'[t] = LocalNames /\ loc'[t].ptr = loc[t].ptr - 1 /\ loc'[t].best = b
      BY <1>a, <2>4 DEF Shape, LocalNames
    <3>3. loc'[t].ptr \in 0 .. created /\ loc'[t].best \in 0 .. created
      BY <1>a, <2>2, <2>4, <3>2
    <3> QED  BY <1>0, <1>b, <3>1, <3>2, <3>3, RolePlain
  <2>5. ASSUME Goto(t, "check"), loc[t].best # 0,
               loc' = [loc EXCEPT ![t] = [Blank EXCEPT !.best = loc[t].best, !.p = loc[t].best]]
        PROVE  OnlyMoves(t) /\ pc'[t] \in Plain /\ RoleOK(pc'[t], loc'[t], prodOf[t], st, created)
    <3>1. OnlyMoves(t) /\ pc'[t] = "check"  BY <2>5 DEF OnlyMoves, Shape, Goto
    <3>2. PICK r : r = [Blank EXCEPT !.best = loc[t].best, !.p = loc[t].best]
      OBVIOUS
    <3>3. DOMAIN r = LocalNames /\ r.p = loc[t].best  BY <3>2, BlankIs
    <3>4. loc'[t] = r  BY <2>5, <3>2 DEF Shape
    <3>5. r.p \in 1 .. created  BY <1>a, <2>2, <2>5, <3>3
    <3> QED  BY <1>0, <1>b, <3>1, <3>3, <3>4, <3>5, RolePlain
  <2> QED  BY <1>0, <2>3, <2>4, <2>5, ReturnRole
<1>3. CASE LoadOvercommit(t)
  <2>1. /\ pc[t] = "check" /\ pc' = [pc EXCEPT ![t] = "count"]
        /\ loc' = [loc EXCEPT ![t].tl = tailIndex[loc[t].p], ![t].over = dequeueOvercommit[loc[t].p]]
    BY <1>3 DEF LoadOvercommit, At, Goto
  <2>2. OnlyMoves(t) /\ pc'[t] = "count"  BY <2>1 DEF OnlyMoves, Shape
  <2>3. DOMAIN loc'[t] = LocalNames /\ loc'[t].p = loc[t].p
    BY <1>a, <2>1 DEF Shape, LocalNames
  <2>4. loc[t].p \in 1 .. created  BY <1>c, <2>1 DEF RoleOK
  <2> QED  BY <1>0, <1>b, <2>2, <2>3, <2>4, RolePlain
<1>4. CASE Check(t)
  <2>1. pc[t] = "count" /\ ((Goto(t, "claim") /\ loc' = loc) \/ TryNext(t))
    BY <1>4 DEF Check, At
  <2>2. ASSUME Goto(t, "claim"), loc' = loc
        PROVE  OnlyMoves(t) /\ pc'[t] \in Plain /\ RoleOK(pc'[t], loc'[t], prodOf[t], st, created)
    <3>1. OnlyMoves(t) /\ pc'[t] = "claim" /\ loc'[t] = loc[t]
      BY <2>2 DEF OnlyMoves, Shape, Goto
    <3>2. loc[t].p \in 1 .. created  BY <1>c, <2>1 DEF RoleOK
    <3> QED  BY <1>0, <1>a, <1>b, <3>1, <3>2, RolePlain
  <2>3. pc[t] \in Dequeuing  BY <1>c, <2>1
  <2> QED  BY <2>1, <2>2, <2>3, TryNextRole
<1>5. CASE Claim(t)
  <2>1. /\ pc[t] = "claim" /\ pc' = [pc EXCEPT ![t] = "tail"]
        /\ loc' = [loc EXCEPT ![t].my = dequeueOptimisticCount[loc[t].p], ![t].tl = 0]
    BY <1>5 DEF Claim, At, Goto
  <2>2. OnlyMoves(t) /\ pc'[t] = "tail"  BY <2>1 DEF OnlyMoves, Shape
  <2>3. DOMAIN loc'[t] = LocalNames /\ loc'[t].p = loc[t].p
    BY <1>a, <2>1 DEF Shape, LocalNames
  <2>4. loc[t].p \in 1 .. created  BY <1>c, <2>1 DEF RoleOK
  <2> QED  BY <1>0, <1>b, <2>2, <2>3, <2>4, RolePlain
<1>6. CASE CheckTail(t) /\ ~(loc[t].my - loc[t].over < tailIndex[loc[t].p])
  <2>1. pc[t] = "tail" /\ Goto(t, "overcommit") /\ loc' = loc
    BY <1>6 DEF CheckTail, At
  <2>2. OnlyMoves(t) /\ pc'[t] = "overcommit" /\ loc'[t] = loc[t]
    BY <2>1 DEF OnlyMoves, Shape, Goto
  <2>3. loc[t].p \in 1 .. created  BY <1>c, <2>1 DEF RoleOK
  <2> QED  BY <1>0, <1>a, <1>b, <2>2, <2>3, RolePlain
<1>7. CASE Overcommit(t)
  <2>1. pc[t] \in Dequeuing /\ TryNext(t)  BY <1>7, <1>c DEF Overcommit, At
  <2> QED  BY <2>1, TryNextRole
<1>8. CASE IndexNotGrown(t)  BY <1>0, <1>8, ReturnRole DEF IndexNotGrown
<1>9. CASE Added(t)  BY <1>0, <1>9, ReturnRole DEF Added
<1> QED  BY <1>1, <1>2, <1>3, <1>4, <1>5, <1>6, <1>7, <1>8, <1>9 DEF Looks

\* They keep the invariant.
LEMMA LooksKeep ==
    ASSUME Shape, CreatedOK, NEW st, NEW dn, BInvOf(st, dn), NEW t \in Threads, Looks(t)
    PROVE  BInvOf(st, dn)'
<1>1. RoleOK(pc[t], loc[t], prodOf[t], st, created)  BY ThreadIs
<1>2. OnlyMoves(t) /\ pc'[t] \in Plain /\ RoleOK(pc'[t], loc'[t], prodOf[t], st, created)
  BY <1>1, LooksRole
<1>3. /\ CalmData /\ UNCHANGED <<poolIndex, heapFree>> /\ UNCHANGED flVars
      /\ pc[t] \notin Inserted /\ pc[t] # "freeList" /\ (pc[t] = "adding" => fl[t].at = "none")
  BY LooksLeave
<1>4. fl[t].at = "none"
  <2>1. CallsOK  BY BInvParts
  <2> QED  BY <1>3, <2>1 DEF CallsOK
<1>5. pc[t] # "link"  BY <1>3 DEF Inserted, Unlinked
<1> QED  BY <1>2, <1>3, <1>4, <1>5, PlainKeeps

-----------------------------------------------------------------------------
(***************************************************************************)
(* Steps of the free list, of a thread that ends, and none.                 *)
(***************************************************************************)
\* A step of the free list is of a thread that is in a call of it.
LEMMA ListStepIs ==
    ASSUME DOMAIN fl = Threads, NEW t \in Threads, FLNext(t)
    PROVE  fl[t].at # "none" /\ \A u \in Threads : u # t => fl'[u] = fl[u]
<1>1. CASE TryGet(t)
  BY <1>1 DEF TryGet, TryGetLoad, TryGetRef, TryGetNext, TryGetCas, TryGetTake, TryGetDrop, FLAt, FLGoto
<1>2. CASE AddNext(t)
  BY <1>2 DEF AddNext, Add, AddLoad, AddLink, AddPush, AddUnlink, FLAt, FLGoto
<1> QED  BY <1>1, <1>2 DEF FLNext

\* It keeps the invariant.
LEMMA ListStepBInv ==
    ASSUME Shape, NEW st, NEW dn, BInvOf(st, dn), NEW t \in Threads, FreeListStep(t)
    PROVE  BInvOf(st, dn)'
<1>1. FLInv /\ SourcesOK /\ Placed /\ CallsOK /\ DOMAIN fl = Threads
  BY BInvParts, CallIs
<1>2. FLNext(t) /\ pc' = pc /\ loc' = loc /\ CalmData /\ UNCHANGED <<poolIndex, heapFree>>
  BY DEF FreeListStep, threadVars, CalmData, counters, blockSrc, prodList, indexVars, blockVars
<1>3. fl[t].at # "none" /\ \A u \in Threads : u # t => fl'[u] = fl[u]
  BY <1>1, <1>2, ListStepIs
<1>4. pc[t] \in {"freeList", "adding"}  BY <1>1, <1>3 DEF CallsOK
<1>5. FLInv' /\ \A b \in Blocks : Inside(b)' <=> Inside(b)
  BY <1>1, <1>2, ListStepKeeps DEF FLKept
<1>6. OnlyMoves(t) /\ pc'[t] = pc[t] /\ loc'[t] = loc[t]  BY <1>2 DEF OnlyMoves
<1>7. SourcesOK'  BY <1>1, <1>2 DEF SourcesOK, CalmData
<1>8. Placed'
  <2>1. \A b \in Blocks, p \in Producers, e \in Nat : Indexed(p, e, b)' <=> Indexed(p, e, b)
    BY <1>2, SameIndexed DEF CalmData
  <2>2. UNCHANGED <<poolIndex, initialBlockPoolSize, heapFree>>
    BY <1>2 DEF CalmData
  <2> QED  BY <1>1, <1>4, <1>5, <1>6, <2>1, <2>2, CalmPlaced
<1>9. CallsOK'  BY <1>1, <1>3, <1>4, <1>6, CallsAgain
<1>10. /\ RoleOK(pc'[t], loc'[t], prodOf[t], st, created)
       /\ WriterOK(pc'[t], loc'[t], headers[loc'[t].p])
       /\ ReaderOK(pc'[t], loc'[t], entries[loc'[t].p], headers[loc'[t].p],
                   headIndex[loc'[t].p], dn[loc'[t].p])
       /\ \A u \in Threads : u # t => BothOK(pc'[t], loc'[t], pc[u], loc[u])
  BY <1>6, ThreadIs
<1> QED  BY <1>2, <1>5, <1>6, <1>7, <1>8, <1>9, <1>10, CalmKeeps

\* The free list when nothing moves.
LEMMA StillFLInv ==
    ASSUME FLInv, UNCHANGED flVars
    PROVE  FLInv' /\ \A b : Inside(b)' <=> Inside(b)
<1>1. UNCHANGED <<flHead, flRefs, flShould, flNext, fl>>  BY DEF flVars
<1>2. Linked' = Linked  BY <1>1, LinkedIs
<1>3. \A b : InList(b)' <=> InList(b)  BY <1>2 DEF InList
<1>4. \A b : Inside(b)' <=> Inside(b)  BY <1>1, <1>3 DEF Inside
<1>5. FLTypeOK'  BY <1>1 DEF FLInv, FLTypeOK
<1>6. ListOK'  BY <1>1 DEF FLInv, ListOK
<1>7. RefsOK'
  <2>1. \A b : References(b, InList(b))' = Held(b)' + Count(InList(b))'
    BY ReferencesWillBe
  <2>2. ASSUME NEW b \in Blocks PROVE flRefs'[b] = References(b, InList(b))'
    <3>1. flRefs[b] = Held(b) + Count(InList(b))  BY ReferencesAre DEF FLInv, RefsOK
    <3>2. Held(b)' = Held(b)  BY <1>1 DEF Held, Once, Twice, Adding
    <3>3. Count(InList(b))' = Count(InList(b))  BY <1>3 DEF Count
    <3> QED  BY <1>1, <2>1, <3>1, <3>2, <3>3
  <2> QED  BY <2>2 DEF RefsOK
<1>8. Apart'  BY <1>1, <1>3 DEF FLInv, Apart
<1>9. LinksOK'  BY <1>1 DEF FLInv, LinksOK
<1> QED  BY <1>4, <1>5, <1>6, <1>7, <1>8, <1>9 DEF FLInv

\* The blocks when nothing moves.
LEMMA StillPlaced ==
    ASSUME Placed, UNCHANGED <<pc, loc, entries, poolIndex, initialBlockPoolSize, heapFree>>,
           \A b : Inside(b)' <=> Inside(b)
    PROVE  Placed'
<1>1. ASSUME NEW b \in Blocks PROVE PlacedAt(b)'
  <2>1. (InPool(b)' <=> InPool(b)) /\ (OnHeap(b)' <=> OnHeap(b))
    BY DEF InPool, OnHeap
  <2>2. \A u \in Threads : Linking(u, b)' <=> Linking(u, b)  BY DEF Linking
  <2>3. \A p \in Producers, e \in Nat : Indexed(p, e, b)' <=> Indexed(p, e, b)
    BY SameIndexed
  <2>4. Stays(b)  BY <2>1, <2>2, <2>3 DEF Stays
  <2>5. PlacedAt(b)  BY DEF Placed
  <2> QED  BY <2>4, <2>5, StaysPlaced
<1> QED  BY <1>1 DEF Placed

\* What a step leaves that is not of the producers' list.
StillData ==
    /\ UNCHANGED <<pc, loc, entries, headers, tailIndex, headIndex, tailBlock, cell,
                   elementsCompletelyDequeued>>
    /\ UNCHANGED <<created, initialBlockPoolSize, poolIndex, heapFree>> /\ UNCHANGED flVars

\* Such a step keeps these parts.
LEMMA StillParts ==
    ASSUME NEW st, NEW dn, BInvOf(st, dn), StillData
    PROVE  /\ FLInv' /\ SourcesOK' /\ Placed' /\ CallsOK' /\ PartsOK(st, dn)'
           /\ WritersOK' /\ ReadersOK(dn)' /\ ReadersApart'
<1>1. FLInv' /\ \A b : Inside(b)' <=> Inside(b)
  BY BInvParts, StillFLInv DEF StillData
<1>2. Placed'  BY <1>1, BInvParts, StillPlaced DEF StillData
<1>3. SourcesOK'  BY BInvParts DEF SourcesOK, StillData
<1>4. CallsOK'  BY BInvParts DEF CallsOK, StillData, flVars
<1>5. PartsOK(st, dn)'  BY BInvParts DEF PartsOK, StillData
<1>6. WritersOK'  BY BInvParts DEF WritersOK, StillData
<1>7. ReadersOK(dn)'  BY BInvParts DEF ReadersOK, StillData
<1>8. ReadersApart'  BY BInvParts DEF ReadersApart, StillData
<1> QED  BY <1>1, <1>2, <1>3, <1>4, <1>5, <1>6, <1>7, <1>8

\* Nothing moves.
LEMMA StillBInv ==
    ASSUME NEW st, NEW dn, BInvOf(st, dn), StillData, UNCHANGED <<inactive, prodOf>>
    PROVE  BInvOf(st, dn)'
<1>1. TablesOK'  BY BInvParts DEF TablesOK, StillData
<1>2. ProducersOK(st, dn)'  BY BInvParts DEF ProducersOK, StillData
<1>3. RolesOK(st)'  BY BInvParts DEF RolesOK, StillData
<1> QED  BY <1>1, <1>2, <1>3, StillParts DEF BInvOf

\* A thread ends, and leaves its producer to others.
LEMMA ExitBInv ==
    ASSUME CreatedOK, NEW st, NEW dn, BInvOf(st, dn), NEW t \in Threads, ThreadExit(t)
    PROVE  BInvOf(st, dn)'
<1>1. /\ pc[t] = "idle" /\ prodOf[t] # 0 /\ prodOf' = [prodOf EXCEPT ![t] = 0]
      /\ inactive' = inactive \union {prodOf[t]} /\ StillData
  BY DEF ThreadExit, At, StillData, counters, blockSrc, indexVars, blockVars
<1>2. TablesOK /\ ProducersOK(st, dn) /\ RolesOK(st)  BY BInvParts
<1>3. DOMAIN prodOf = Threads  BY <1>2 DEF TablesOK
<1>4. prodOf'[t] = 0 /\ \A u \in Threads : u # t => prodOf'[u] = prodOf[u]
  BY <1>1, <1>3
<1>5. RoleOK("idle", loc[t], prodOf[t], st, created)  BY <1>1, <1>2 DEF RolesOK
<1>6. prodOf[t] \in 1 .. created /\ st[prodOf[t]] = "none"
  <2>1. prodOf[t] \in 0 .. created /\ prodOf[t] # 0 /\ st[prodOf[t]] = StageAt("idle")
    BY <1>1, <1>5 DEF RoleOK
  <2>2. "idle" \in Plain  BY DEF Plain
  <2> QED  BY <2>1, <2>2, PlainOK
<1>7. TablesOK'  BY <1>1, <1>2 DEF TablesOK, StillData
<1>8. ProducersOK(st, dn)'
  <2>1. inactive' \in SUBSET (1 .. created')
    BY <1>1, <1>2, <1>6 DEF ProducersOK, StillData
  <2>2. ASSUME NEW p \in inactive' PROVE st[p] = "none" /\ \A u \in Threads : prodOf'[u] # p
    <3>1. CASE p = prodOf[t]
      <4>1. \A u \in Threads : u # t => prodOf[u] # prodOf[t]
        BY <1>1, <1>2 DEF ProducersOK
      <4> QED  BY <1>1, <1>4, <1>6, <3>1, <4>1
    <3>2. CASE p # prodOf[t]
      <4>1. p \in inactive /\ p \in 1 .. created
        BY <1>1, <1>2, <3>2 DEF ProducersOK
      <4>2. st[p] = "none" /\ \A u \in Threads : prodOf[u] # p
        BY <1>2, <4>1 DEF ProducersOK
      <4>3. p # 0  BY <4>1
      <4> QED  BY <1>4, <4>2, <4>3
    <3> QED  BY <3>1, <3>2
  <2>3. \A u, v \in Threads : prodOf'[u] = prodOf'[v] /\ prodOf'[u] # 0 => u = v
    BY <1>2, <1>4 DEF ProducersOK
  <2> QED  BY <1>1, <1>2, <2>1, <2>2, <2>3 DEF ProducersOK, StillData
<1>9. RolesOK(st)'
  <2>1. ASSUME NEW u \in Threads PROVE RoleOK(pc'[u], loc'[u], prodOf'[u], st, created')
    <3>1. RoleOK(pc[u], loc[u], prodOf[u], st, created)  BY ThreadIs
    <3>2. CASE u = t
      <4>1. "idle" \notin Enqueuing  BY DEF Enqueuing, Inserted, Unlinked
      <4>2. 0 \in 0 .. created  BY DEF CreatedOK
      <4>3. RoleOK("idle", loc[t], 0, st, created)  BY <1>5, <4>1, <4>2 DEF RoleOK
      <4> QED  BY <1>1, <1>4, <3>2, <4>3 DEF StillData
    <3>3. CASE u # t  BY <1>1, <1>4, <3>1, <3>3 DEF StillData
    <3> QED  BY <3>2, <3>3
  <2> QED  BY <2>1 DEF RolesOK
<1> QED  BY <1>1, <1>7, <1>8, <1>9, StillParts DEF BInvOf

-----------------------------------------------------------------------------
(***************************************************************************)
(* The steps of dequeue() that look the element up and read it.             *)
(***************************************************************************)
\* An index that is given out is of an element that is there.
LEMMA HeadBehind ==
    ASSUME IInv, NEW p \in 1 .. created
    PROVE  /\ p \in Producers /\ headIndex[p] \in Nat /\ tailIndex[p] \in Nat
           /\ headIndex[p] <= tailIndex[p]
<1>1. p \in Producers  BY DEF IInv, CreatedOK
<1>2. headIndex[p] \in Nat /\ tailIndex[p] \in Nat  BY <1>1 DEF IInv, CountersOK
<1>3. headIndex[p] <= tailIndex[p]  BY IInvCountsAgree DEF CountsAgree
<1> QED  BY <1>1, <1>2, <1>3

\* What a thread that reads has.
LEMMA ReadingIs ==
    ASSUME IInv, NEW st, NEW dn, BInvOf(st, dn), NEW t \in Threads, pc[t] \in Readings
    PROVE  /\ loc[t].p \in 1 .. created /\ loc[t].p \in Producers
           /\ loc[t].idx \in Nat /\ loc[t].idx \notin dn[loc[t].p]
           /\ loc[t].idx < headIndex[loc[t].p] /\ loc[t].idx < tailIndex[loc[t].p]
           /\ PartOK(loc[t].p, entries[loc[t].p], headers[loc[t].p], tailIndex[loc[t].p],
                     tailBlock[loc[t].p], st[loc[t].p], cell, elementsCompletelyDequeued,
                     dn[loc[t].p])
<1>1. loc[t].p \in 1 .. created
  <2>1. pc[t] \in Dequeuing  BY DEF Dequeuing
  <2> QED  BY <2>1, ThreadIs DEF RoleOK
<1>2. loc[t].idx \in Nat /\ loc[t].idx < headIndex[loc[t].p] /\ loc[t].idx \notin dn[loc[t].p]
  BY ThreadIs DEF ReaderOK
<1>3. loc[t].p \in Producers /\ loc[t].idx < tailIndex[loc[t].p]
  <2>1. PICK p \in 1 .. created : p = loc[t].p  BY <1>1
  <2>2. p \in Producers /\ headIndex[p] \in Nat /\ tailIndex[p] \in Nat /\ headIndex[p] <= tailIndex[p]
    BY HeadBehind
  <2> QED  BY <1>2, <2>1, <2>2
<1>4. PartsOK(st, dn)  BY BInvParts
<1> QED  BY <1>1, <1>2, <1>3, <1>4 DEF PartsOK

\* A thread that goes on with the same element.
LEMMA BothGoes ==
    ASSUME NEW c \in Readings, NEW l, NEW d, NEW m, BothOK(c, l, d, m),
           NEW c2 \in Readings, NEW l2, l2.p = l.p, l2.idx = l.idx
    PROVE  BothOK(c2, l2, d, m)
<1>1. c2 # "unindex"  BY DEF Readings
<1> QED  BY <1>1 DEF BothOK

\* A step of a thread that reads.
LEMMA ReadingKeeps ==
    ASSUME NEW st, NEW dn, BInvOf(st, dn), NEW t \in Threads, OnlyMoves(t), CalmData,
           UNCHANGED <<poolIndex, heapFree>>, UNCHANGED flVars,
           pc[t] \in Readings, pc'[t] \in Readings, DOMAIN loc'[t] = LocalNames,
           loc'[t].p = loc[t].p, loc'[t].idx = loc[t].idx,
           ReaderOK(pc'[t], loc'[t], entries[loc'[t].p], headers[loc'[t].p],
                    headIndex[loc'[t].p], dn[loc'[t].p])
    PROVE  BInvOf(st, dn)'
<1>1. \A c \in Readings : /\ c \notin Unlinked /\ c # "link" /\ c \notin Enqueuing /\ c \in Dequeuing
                          /\ c # "score" /\ c # "idle" /\ StageAt(c) = "none"
                          /\ c \notin {"freeList", "adding"}
  BY DEF Readings, Unlinked, Inserted, Enqueuing, Dequeuing, StageAt
<1>2. FLInv /\ SourcesOK /\ Placed /\ CallsOK  BY BInvParts
<1>3. FLInv' /\ \A b \in Blocks : Inside(b)' <=> Inside(b)
  BY <1>2, StillKeeps DEF FLKept
<1>4. SourcesOK'  BY <1>2 DEF SourcesOK, CalmData
<1>5. Placed'
  <2>1. \A b \in Blocks, p \in Producers, e \in Nat : Indexed(p, e, b)' <=> Indexed(p, e, b)
    BY SameIndexed DEF CalmData
  <2>2. pc[t] # "link" /\ pc'[t] # "link"  BY <1>1
  <2>3. UNCHANGED <<poolIndex, initialBlockPoolSize, heapFree>>  BY DEF CalmData
  <2> QED  BY <1>2, <1>3, <2>1, <2>2, <2>3, CalmPlaced
<1>6. CallsOK'
  <2>1. fl[t].at = "none"  BY <1>1, <1>2 DEF CallsOK
  <2>2. \A u \in Threads : fl'[u] = fl[u]  BY DEF flVars
  <2> QED  BY <1>2, <2>1, <2>2, CallsAgain
<1>7. RoleOK(pc'[t], loc'[t], prodOf[t], st, created)
  <2>1. RoleOK(pc[t], loc[t], prodOf[t], st, created)  BY ThreadIs
  <2> QED  BY <1>1, <2>1, BlankIs DEF RoleOK
<1>8. WriterOK(pc'[t], loc'[t], headers[loc'[t].p])  BY <1>1 DEF WriterOK
<1>9. \A u \in Threads : u # t => BothOK(pc'[t], loc'[t], pc[u], loc[u])
  BY ThreadIs, BothGoes
<1> QED  BY <1>3, <1>4, <1>5, <1>6, <1>7, <1>8, <1>9, CalmKeeps

\* What these steps leave alone.
LEMMA ReadsLeave ==
    ASSUME NEW t \in Threads, Lookup(t) \/ FindEntry(t) \/ ReadElement(t)
    PROVE  CalmData /\ UNCHANGED <<poolIndex, heapFree>> /\ UNCHANGED flVars
BY DEF Lookup, FindEntry, ReadElement, CalmData, DequeueLeaves, counters, blockSrc, prodList

\* Lookup loads the current header and its tail, and they lead to the element.
LEMMA LookupBInv ==
    ASSUME IInv, NEW st, NEW dn, BInvOf(st, dn), NEW t \in Threads, Lookup(t)
    PROVE  BInvOf(st, dn)'
<1>1. PICK p : p = loc[t].p  BY Zenon
<1>2. /\ pc[t] = "lookup" /\ pc' = [pc EXCEPT ![t] = "entry"]
      /\ loc' = [loc EXCEPT ![t].hdr = Len(headers[p]), ![t].tl = headers[p][Len(headers[p])].tail]
  BY <1>1 DEF Lookup, At, Goto, Current
<1>3. OnlyMoves(t) /\ pc'[t] = "entry"  BY <1>2 DEF OnlyMoves, IInv, Shape
<1>4. DOMAIN loc[t] = LocalNames  BY ThreadIs, BlankIs
<1>5. /\ DOMAIN loc'[t] = LocalNames /\ loc'[t].p = loc[t].p /\ loc'[t].idx = loc[t].idx
      /\ loc'[t].hdr = Len(headers[p]) /\ loc'[t].tl = headers[p][Len(headers[p])].tail
  BY <1>2, <1>4 DEF IInv, Shape, LocalNames
<1>6. pc[t] \in Readings /\ pc'[t] \in Readings  BY <1>2, <1>3 DEF Readings
<1>7. PICK i \in Nat : i = loc[t].idx  BY <1>6, ReadingIs
<1>8. /\ i \notin dn[p] /\ i < headIndex[p] /\ i < tailIndex[p]
      /\ PartOK(p, entries[p], headers[p], tailIndex[p], tailBlock[p], st[p], cell,
                elementsCompletelyDequeued, dn[p])
  BY <1>1, <1>6, <1>7, ReadingIs
<1>9. LeadsTo(entries[p], headers[p], Len(headers[p]), headers[p][Len(headers[p])].tail, i)
  BY <1>8, LookupLeads
<1>10. ReaderOK("entry", loc'[t], entries[p], headers[p], headIndex[p], dn[p])
  BY <1>5, <1>7, <1>8, <1>9 DEF ReaderOK
<1> QED  BY <1>1, <1>3, <1>5, <1>6, <1>10, ReadsLeave, ReadingKeeps

\* FindEntry finds its entry by them, whatever the producer has done meanwhile.
LEMMA FindEntryBInv ==
    ASSUME IInv, NEW st, NEW dn, BInvOf(st, dn), NEW t \in Threads, FindEntry(t)
    PROVE  BInvOf(st, dn)'
<1>1. PICK p : p = loc[t].p  BY Zenon
<1>2. PICK i : i = loc[t].idx  BY Zenon
<1>3. PICK h : h = headers[p][loc[t].hdr]  BY Zenon
<1>4. PICK e : e = EntryFor(p, h, loc[t].tl, i)  BY Zenon
<1>5. /\ pc[t] = "entry" /\ pc' = [pc EXCEPT ![t] = "read"]
      /\ loc' = [loc EXCEPT ![t].ent = e, ![t].blk = entries[p][e].value]
  BY <1>1, <1>2, <1>3, <1>4 DEF FindEntry, At, Goto
<1>6. OnlyMoves(t) /\ pc'[t] = "read"  BY <1>5 DEF OnlyMoves, IInv, Shape
<1>7. DOMAIN loc[t] = LocalNames  BY ThreadIs, BlankIs
<1>8. /\ DOMAIN loc'[t] = LocalNames /\ loc'[t].p = loc[t].p /\ loc'[t].idx = loc[t].idx
      /\ loc'[t].ent = e /\ loc'[t].blk = entries[p][e].value
  BY <1>5, <1>7 DEF IInv, Shape, LocalNames
<1>9. pc[t] \in Readings /\ pc'[t] \in Readings  BY <1>5, <1>6 DEF Readings
<1>10. /\ i \in Nat /\ i \notin dn[p] /\ i < headIndex[p]
       /\ PartOK(p, entries[p], headers[p], tailIndex[p], tailBlock[p], st[p], cell,
                 elementsCompletelyDequeued, dn[p])
  BY <1>1, <1>2, <1>9, ReadingIs
<1>11. LeadsTo(entries[p], headers[p], loc[t].hdr, loc[t].tl, i)
  BY <1>1, <1>2, <1>5, ThreadIs DEF ReaderOK
<1>12. IndexOK(entries[p], headers[p], tailIndex[p], st[p])  BY <1>10, PartFacts
<1>13. EntryOf(entries[p], Found(entries[p], h, loc[t].tl, i, Capacity(h)), i)
  BY <1>3, <1>10, <1>11, <1>12, LeadsFinds
<1>14. e = Found(entries[p], h, loc[t].tl, i, Capacity(h))
  BY <1>4 DEF EntryFor, Found, Base
<1>15. ReaderOK("read", loc'[t], entries[p], headers[p], headIndex[p], dn[p])
  BY <1>2, <1>8, <1>10, <1>13, <1>14 DEF ReaderOK
<1> QED  BY <1>1, <1>6, <1>8, <1>9, <1>15, ReadsLeave, ReadingKeeps

\* ReadElement reads the element from its cell.
LEMMA ReadElementBInv ==
    ASSUME IInv, NEW st, NEW dn, BInvOf(st, dn), NEW t \in Threads, ReadElement(t)
    PROVE  BInvOf(st, dn)'
<1>1. PICK p : p = loc[t].p  BY Zenon
<1>2. PICK i : i = loc[t].idx  BY Zenon
<1>3. PICK x : x = cell[loc[t].blk][i % BlockSize]  BY Zenon
<1>5. /\ pc[t] = "read" /\ pc' = [pc EXCEPT ![t] = "empty"] /\ loc' = [loc EXCEPT ![t].el = x]
  BY <1>2, <1>3 DEF ReadElement, At, Goto
<1>6. OnlyMoves(t) /\ pc'[t] = "empty"  BY <1>5 DEF OnlyMoves, IInv, Shape
<1>7. DOMAIN loc[t] = LocalNames  BY ThreadIs, BlankIs
<1>8. /\ DOMAIN loc'[t] = LocalNames /\ loc'[t].p = loc[t].p /\ loc'[t].idx = loc[t].idx
      /\ loc'[t].ent = loc[t].ent /\ loc'[t].blk = loc[t].blk /\ loc'[t].el = x
  BY <1>5, <1>7 DEF IInv, Shape, LocalNames
<1>9. pc[t] \in Readings /\ pc'[t] \in Readings  BY <1>5, <1>6 DEF Readings
<1>10. /\ i \in Nat /\ i \notin dn[p] /\ i < headIndex[p] /\ i < tailIndex[p]
       /\ PartOK(p, entries[p], headers[p], tailIndex[p], tailBlock[p], st[p], cell,
                 elementsCompletelyDequeued, dn[p])
  BY <1>1, <1>2, <1>9, ReadingIs
<1>11. EntryOf(entries[p], loc[t].ent, i) /\ entries[p][loc[t].ent].value = loc[t].blk
  BY <1>1, <1>2, <1>5, ThreadIs DEF ReaderOK
<1>12. x = <<p, i>>
  <2>1. HoldsElements(p, entries[p], loc[t].ent, tailIndex[p], tailBlock[p], cell,
                      elementsCompletelyDequeued, dn[p])
    BY <1>10, <1>11, PartFacts DEF EntryOf
  <2>2. Base(i) + (i % BlockSize) = i /\ i % BlockSize \in Elements
    BY <1>10, BaseIs DEF Elements
  <2> QED  BY <1>3, <1>10, <1>11, <2>1, <2>2 DEF HoldsElements, EntryOf
<1>13. ReaderOK("empty", loc'[t], entries[p], headers[p], headIndex[p], dn[p])
  BY <1>1, <1>2, <1>8, <1>10, <1>11, <1>12 DEF ReaderOK
<1> QED  BY <1>1, <1>6, <1>8, <1>9, <1>13, ReadsLeave, ReadingKeeps

-----------------------------------------------------------------------------
(***************************************************************************)
(* requisition_block()                                                      *)
(***************************************************************************)
\* A thread between the insertion of its entry and the link of the block.
LEMMA UnlinkedGoes ==
    ASSUME NEW st, NEW dn, BInvOf(st, dn), NEW t \in Threads, pc[t] \in Unlinked,
           NEW c \in Unlinked, NEW l, DOMAIN l = LocalNames, l.p = loc[t].p, l.ent = loc[t].ent,
           c = "link" => l.blk \in Blocks
    PROVE  /\ RoleOK(c, l, prodOf[t], st, created)
           /\ WriterOK(c, l, headers[l.p])
           /\ ReaderOK(c, l, entries[l.p], headers[l.p], headIndex[l.p], dn[l.p])
           /\ \A u \in Threads : BothOK(c, l, pc[u], loc[u])
<1>1. \A d \in Unlinked : /\ d \notin Readings /\ d # "unindex" /\ d \notin Dequeuing /\ d \in Enqueuing
                          /\ d # "score" /\ d # "idle" /\ StageAt(d) = "unlinked"
                          /\ d # "entry" /\ d # "empty" /\ d \notin {"read", "empty"}
  BY DEF Readings, Unlinked, Inserted, Enqueuing, Dequeuing, StageAt
<1>2. RoleOK(pc[t], loc[t], prodOf[t], st, created) /\ WriterOK(pc[t], loc[t], headers[loc[t].p])
  BY ThreadIs
<1>3. RoleOK(c, l, prodOf[t], st, created)  BY <1>1, <1>2, BlankIs DEF RoleOK
<1>4. WriterOK(c, l, headers[l.p])  BY <1>2 DEF WriterOK
<1>5. ReaderOK(c, l, entries[l.p], headers[l.p], headIndex[l.p], dn[l.p])
  BY <1>1 DEF ReaderOK
<1>6. \A u \in Threads : BothOK(c, l, pc[u], loc[u])  BY <1>1 DEF BothOK
<1> QED  BY <1>3, <1>4, <1>5, <1>6

\* A block comes from the place x into the hand of t.
LEMMA TakenPlaced ==
    ASSUME Placed, NEW t \in Threads, OnlyMoves(t), pc[t] # "link", pc'[t] = "link",
           NEW b \in Blocks, loc'[t].blk = b, entries' = entries,
           NEW x, Stands(b, x),
           InPool(b)' => InPool(b) /\ x # <<"pool", 0, 0>>,
           OnHeap(b)' => OnHeap(b) /\ x # <<"heap", 0, 0>>,
           Inside(b)' => Inside(b) /\ x # <<"list", 0, 0>>,
           x \in {<<"pool", 0, 0>>, <<"heap", 0, 0>>, <<"list", 0, 0>>},
           \A c \in Blocks : c # b => /\ InPool(c)' <=> InPool(c)
                                      /\ OnHeap(c)' <=> OnHeap(c)
                                      /\ Inside(c)' <=> Inside(c)
    PROVE  Placed'
<1>1. \A u \in Threads : \A c : c # b \/ u # t => (Linking(u, c)' <=> Linking(u, c))
  BY DEF Linking, OnlyMoves
<1>2. Linking(t, b)' /\ ~Linking(t, b)  BY DEF Linking
<1>3. \A c, p, e : Indexed(p, e, c)' <=> Indexed(p, e, c)  BY SameIndexed
<1>4. \A c \in Blocks : c # b => Stays(c)  BY <1>1, <1>3 DEF Stays
<1>5. Stands(b, <<"link", t, 0>>)'  BY <1>2 DEF Stands
<1>6. ASSUME NEW z, Stands(b, z)'
      PROVE  z = <<"link", t, 0>> \/ (z # x /\ Stands(b, z))
  <2>1. CASE z = <<"pool", 0, 0>> /\ InPool(b)'  BY <2>1, PlacedFacts
  <2>2. CASE z = <<"heap", 0, 0>> /\ OnHeap(b)'  BY <2>2, PlacedFacts
  <2>3. CASE z = <<"list", 0, 0>> /\ Inside(b)'  BY <2>3, PlacedFacts
  <2>4. ASSUME NEW u \in Threads, z = <<"link", u, 0>>, Linking(u, b)'
        PROVE  z = <<"link", t, 0>> \/ (z # x /\ Stands(b, z))
    <3>1. CASE u = t  BY <2>4, <3>1
    <3>2. CASE u # t
      <4>1. Linking(u, b)  BY <1>1, <2>4, <3>2
      <4>2. z # x  BY <2>4
      <4> QED  BY <2>4, <4>1, <4>2, PlacedFacts
    <3> QED  BY <3>1, <3>2
  <2>5. ASSUME NEW p \in Producers, NEW e \in Nat, z = <<"index", p, e>>, Indexed(p, e, b)'
        PROVE  z # x /\ Stands(b, z)
    <3>1. Indexed(p, e, b)  BY <1>3, <2>5
    <3>2. z # x  BY <2>5
    <3> QED  BY <2>5, <3>1, <3>2, PlacedFacts
  <2> QED  BY <1>6, <2>1, <2>2, <2>3, <2>4, <2>5 DEF Stands
<1> QED  BY <1>4, <1>5, <1>6, MovesPlaced

\* From the initial pool, or the free list is asked.
LEMMA InitialPoolBInv ==
    ASSUME IInv, NEW st, NEW dn, BInvOf(st, dn), NEW t \in Threads, FromInitialPool(t)
    PROVE  BInvOf(st, dn)'
<1>1. /\ pc[t] = "requisition" /\ CalmData /\ heapFree' = heapFree /\ ListStill
      /\ fl[t].at = "none" /\ DOMAIN loc[t] = LocalNames /\ pc[t] \in Unlinked
  <2>1. pc[t] = "requisition" /\ CalmData /\ heapFree' = heapFree /\ ListStill
    BY DEF FromInitialPool, At, CalmData, prodList, counters, indexVars, blockVars, ListStill
  <2>2. CallsOK  BY BInvParts
  <2> QED  BY <2>1, <2>2, ThreadIs, BlankIs DEF CallsOK, Unlinked
<1>2. FLInv /\ SourcesOK /\ Placed /\ CallsOK /\ DOMAIN fl = Threads
  BY BInvParts, CallIs
<1>3. CASE poolIndex < initialBlockPoolSize
  <2>1. PICK b : b = poolIndex + 1  BY Zenon
  <2>2. /\ poolIndex' = b /\ loc' = [loc EXCEPT ![t].blk = b] /\ pc' = [pc EXCEPT ![t] = "link"]
        /\ fl' = fl
    BY <1>3, <2>1 DEF FromInitialPool, Goto
  <2>3. OnlyMoves(t) /\ pc'[t] = "link" /\ "link" \in Unlinked
    BY <2>2 DEF OnlyMoves, IInv, Shape, Unlinked
  <2>4. DOMAIN loc'[t] = LocalNames /\ loc'[t].p = loc[t].p /\ loc'[t].ent = loc[t].ent /\ loc'[t].blk = b
    BY <1>1, <2>2 DEF IInv, Shape, LocalNames
  <2>5. b \in Blocks /\ b \in Nat /\ b <= initialBlockPoolSize /\ initialBlockPoolSize \in Nat
    BY <1>2, <1>3, <2>1, BlocksAre DEF SourcesOK
  <2>6. FLInv' /\ \A c \in Blocks : Inside(c)' <=> Inside(c)
    <3>1. UNCHANGED flVars  BY <1>1, <2>2 DEF flVars, ListStill
    <3> QED  BY <1>2, <3>1, StillKeeps DEF FLKept
  <2>7. SourcesOK'  BY <1>1, <1>2, <2>2, <2>5 DEF SourcesOK, CalmData
  <2>8. Placed'
    <3>1. InPool(b) /\ ~InPool(b)'  BY <1>2, <2>1, <2>2, <2>5 DEF InPool, SourcesOK
    <3>2. Stands(b, <<"pool", 0, 0>>)  BY <1>2, <2>5, <3>1, PlacedFacts
    <3>3. \A c \in Blocks : c # b => (InPool(c)' <=> InPool(c))
      <4>1. \A c \in Blocks : c \in Nat  BY BlocksAre
      <4> QED  BY <1>1, <1>2, <2>1, <2>2, <4>1 DEF InPool, SourcesOK, CalmData
    <3>4. \A c : OnHeap(c)' <=> OnHeap(c)  BY <1>1 DEF OnHeap
    <3>5. entries' = entries /\ pc[t] # "link"  BY <1>1 DEF CalmData
    <3>6. <<"pool", 0, 0>> # <<"heap", 0, 0>> /\ <<"pool", 0, 0>> # <<"list", 0, 0>>
      OBVIOUS
    <3> QED  BY <1>2, <2>3, <2>4, <2>5, <2>6, <3>1, <3>2, <3>3, <3>4, <3>5, <3>6, TakenPlaced
  <2>9. CallsOK'  BY <1>1, <1>2, <2>2, <2>3, CallsAgain
  <2>10. /\ RoleOK(pc'[t], loc'[t], prodOf[t], st, created)
         /\ WriterOK(pc'[t], loc'[t], headers[loc'[t].p])
         /\ ReaderOK(pc'[t], loc'[t], entries[loc'[t].p], headers[loc'[t].p],
                     headIndex[loc'[t].p], dn[loc'[t].p])
         /\ \A u \in Threads : BothOK(pc'[t], loc'[t], pc[u], loc[u])
    BY <1>1, <2>3, <2>4, <2>5, UnlinkedGoes
  <2> QED  BY <1>1, <2>3, <2>6, <2>7, <2>8, <2>9, <2>10, CalmKeeps
<1>4. CASE ~(poolIndex < initialBlockPoolSize)
  <2>1. /\ pc' = [pc EXCEPT ![t] = "freeList"] /\ loc' = loc /\ poolIndex' = poolIndex
        /\ fl' = [fl EXCEPT ![t].at = "load"]
    BY <1>4 DEF FromInitialPool, Goto
  <2>2. OnlyMoves(t) /\ pc'[t] = "freeList" /\ loc'[t] = loc[t] /\ "freeList" \in Unlinked
    BY <2>1 DEF OnlyMoves, IInv, Shape, Unlinked
  <2>3. FLInv' /\ \A c \in Blocks : Inside(c)' <=> Inside(c)
    BY <1>1, <1>2, <2>1, NothingKeeps DEF FLKept
  <2>4. SourcesOK'  BY <1>1, <1>2, <2>1 DEF SourcesOK, CalmData
  <2>5. Placed'
    <3>1. \A b \in Blocks, p \in Producers, e \in Nat : Indexed(p, e, b)' <=> Indexed(p, e, b)
      BY <1>1, SameIndexed DEF CalmData
    <3>2. UNCHANGED <<poolIndex, initialBlockPoolSize, heapFree>>
      BY <1>1, <2>1 DEF CalmData
    <3>3. pc[t] # "link" /\ pc'[t] # "link"  BY <1>1, <2>2
    <3> QED  BY <1>2, <2>2, <2>3, <3>1, <3>2, <3>3, CalmPlaced
  <2>6. CallsOK'
    <3>1. \A u \in Threads : u # t => fl'[u] = fl[u]  BY <1>2, <2>1
    <3> QED  BY <1>2, <2>2, <3>1, CallsAgain
  <2>7. /\ RoleOK(pc'[t], loc'[t], prodOf[t], st, created)
         /\ WriterOK(pc'[t], loc'[t], headers[loc'[t].p])
         /\ ReaderOK(pc'[t], loc'[t], entries[loc'[t].p], headers[loc'[t].p],
                     headIndex[loc'[t].p], dn[loc'[t].p])
         /\ \A u \in Threads : BothOK(pc'[t], loc'[t], pc[u], loc[u])
    BY <1>1, <2>2, UnlinkedGoes
  <2> QED  BY <1>1, <2>2, <2>3, <2>4, <2>5, <2>6, <2>7, CalmKeeps
<1> QED  BY <1>3, <1>4

\* From the free list, or the heap is asked.
LEMMA FreeListBInv ==
    ASSUME IInv, NEW st, NEW dn, BInvOf(st, dn), NEW t \in Threads, FromFreeList(t)
    PROVE  BInvOf(st, dn)'
<1>1. /\ pc[t] = "freeList" /\ CalmData /\ heapFree' = heapFree /\ poolIndex' = poolIndex /\ ListStill
      /\ fl' = [fl EXCEPT ![t] = NoCall] /\ DOMAIN loc[t] = LocalNames /\ pc[t] \in Unlinked
  <2>1. /\ pc[t] = "freeList" /\ CalmData /\ heapFree' = heapFree /\ poolIndex' = poolIndex /\ ListStill
        /\ fl' = [fl EXCEPT ![t] = NoCall]
    BY DEF FromFreeList, At, CalmData, prodList, counters, indexVars, blockVars, blockSrc, ListStill
  <2> QED  BY <2>1, ThreadIs, BlankIs DEF Unlinked
<1>2. FLInv /\ SourcesOK /\ Placed /\ CallsOK /\ DOMAIN fl = Threads
  BY BInvParts, CallIs
<1>3. SourcesOK'  BY <1>1, <1>2 DEF SourcesOK, CalmData
<1>4. fl'[t].at = "none" /\ \A u \in Threads : u # t => fl'[u] = fl[u]
  BY <1>1, <1>2 DEF NoCall
<1>5. CASE fl[t].at = "got"
  <2>1. PICK b : b = fl[t].head  BY Zenon
  <2>2. loc' = [loc EXCEPT ![t].blk = b] /\ pc' = [pc EXCEPT ![t] = "link"]
    BY <1>5, <2>1 DEF FromFreeList, Goto, FLAt
  <2>3. OnlyMoves(t) /\ pc'[t] = "link" /\ "link" \in Unlinked
    BY <2>2 DEF OnlyMoves, IInv, Shape, Unlinked
  <2>4. DOMAIN loc'[t] = LocalNames /\ loc'[t].p = loc[t].p /\ loc'[t].ent = loc[t].ent /\ loc'[t].blk = b
    BY <1>1, <2>2 DEF IInv, Shape, LocalNames
  <2>5. FLInv' /\ b \in Blocks /\ Inside(b) /\ ~Inside(b)'
    BY <1>1, <1>2, <1>5, <2>1, GotKeeps
  <2>6. \A c \in Blocks : c # b => (Inside(c)' <=> Inside(c))
    BY <1>1, <1>2, <1>5, <2>1, GotKeeps
  <2>7. Placed'
    <3>1. Stands(b, <<"list", 0, 0>>)  BY <1>2, <2>5, PlacedFacts
    <3>2. \A c : (InPool(c)' <=> InPool(c)) /\ (OnHeap(c)' <=> OnHeap(c))
      BY <1>1 DEF OnHeap, InPool, CalmData
    <3>3. entries' = entries /\ pc[t] # "link"  BY <1>1 DEF CalmData
    <3>4. <<"list", 0, 0>> # <<"heap", 0, 0>> /\ <<"list", 0, 0>> # <<"pool", 0, 0>>
      OBVIOUS
    <3> QED  BY <1>2, <2>3, <2>4, <2>5, <2>6, <3>1, <3>2, <3>3, <3>4, TakenPlaced
  <2>8. CallsOK'  BY <1>2, <1>4, <2>3, CallsAgain
  <2>9. /\ RoleOK(pc'[t], loc'[t], prodOf[t], st, created)
         /\ WriterOK(pc'[t], loc'[t], headers[loc'[t].p])
         /\ ReaderOK(pc'[t], loc'[t], entries[loc'[t].p], headers[loc'[t].p],
                     headIndex[loc'[t].p], dn[loc'[t].p])
         /\ \A u \in Threads : BothOK(pc'[t], loc'[t], pc[u], loc[u])
    BY <1>1, <2>3, <2>4, <2>5, UnlinkedGoes
  <2> QED  BY <1>1, <1>3, <2>3, <2>5, <2>7, <2>8, <2>9, CalmKeeps
<1>6. CASE fl[t].at = "null" /\ pc' = [pc EXCEPT ![t] = "create"] /\ loc' = loc
  <2>2. OnlyMoves(t) /\ pc'[t] = "create" /\ loc'[t] = loc[t] /\ "create" \in Unlinked
    BY <1>6 DEF OnlyMoves, IInv, Shape, Unlinked
  <2>3. FLInv' /\ \A c \in Blocks : Inside(c)' <=> Inside(c)
    BY <1>1, <1>2, <1>6, NothingKeeps DEF FLKept
  <2>5. Placed'
    <3>1. \A b \in Blocks, p \in Producers, e \in Nat : Indexed(p, e, b)' <=> Indexed(p, e, b)
      BY <1>1, SameIndexed DEF CalmData
    <3>2. UNCHANGED <<poolIndex, initialBlockPoolSize, heapFree>>
      BY <1>1 DEF CalmData
    <3>3. pc[t] # "link" /\ pc'[t] # "link"  BY <1>1, <2>2
    <3> QED  BY <1>2, <2>2, <2>3, <3>1, <3>2, <3>3, CalmPlaced
  <2>6. CallsOK'  BY <1>2, <1>4, <2>2, CallsAgain
  <2>7. /\ RoleOK(pc'[t], loc'[t], prodOf[t], st, created)
         /\ WriterOK(pc'[t], loc'[t], headers[loc'[t].p])
         /\ ReaderOK(pc'[t], loc'[t], entries[loc'[t].p], headers[loc'[t].p],
                     headIndex[loc'[t].p], dn[loc'[t].p])
         /\ \A u \in Threads : BothOK(pc'[t], loc'[t], pc[u], loc[u])
    BY <1>1, <2>2, UnlinkedGoes
  <2> QED  BY <1>1, <1>3, <2>2, <2>3, <2>5, <2>6, <2>7, CalmKeeps
<1>7. fl[t].at = "got" \/ (fl[t].at = "null" /\ pc' = [pc EXCEPT ![t] = "create"] /\ loc' = loc)
  BY DEF FromFreeList, FLAt, Goto
<1> QED  BY <1>5, <1>6, <1>7

\* From the heap, or there is no memory.
LEMMA HeapBInv ==
    ASSUME IInv, NEW st, NEW dn, BInvOf(st, dn), NEW t \in Threads, FromHeap(t)
    PROVE  BInvOf(st, dn)'
<1>1. /\ pc[t] = "create" /\ CalmData /\ poolIndex' = poolIndex /\ UNCHANGED flVars
      /\ fl[t].at = "none" /\ DOMAIN loc[t] = LocalNames /\ pc[t] \in Unlinked
  <2>1. pc[t] = "create" /\ CalmData /\ poolIndex' = poolIndex /\ UNCHANGED flVars
    BY DEF FromHeap, At, CalmData, prodList, counters, indexVars, blockVars
  <2>2. CallsOK  BY BInvParts
  <2> QED  BY <2>1, <2>2, ThreadIs, BlankIs DEF CallsOK, Unlinked
<1>2. FLInv /\ SourcesOK /\ Placed /\ CallsOK  BY BInvParts
<1>3. FLInv' /\ \A c \in Blocks : Inside(c)' <=> Inside(c)
  BY <1>1, <1>2, StillKeeps DEF FLKept
<1>4. fl'[t].at = "none" /\ \A u \in Threads : u # t => fl'[u] = fl[u]
  BY <1>1 DEF flVars
<1>5. ASSUME NEW b \in heapFree, heapFree' = heapFree \ {b}, loc' = [loc EXCEPT ![t].blk = b],
             pc' = [pc EXCEPT ![t] = "link"]
      PROVE  BInvOf(st, dn)'
  <2>3. OnlyMoves(t) /\ pc'[t] = "link" /\ "link" \in Unlinked
    BY <1>5 DEF OnlyMoves, IInv, Shape, Unlinked
  <2>4. DOMAIN loc'[t] = LocalNames /\ loc'[t].p = loc[t].p /\ loc'[t].ent = loc[t].ent /\ loc'[t].blk = b
    BY <1>1, <1>5 DEF IInv, Shape, LocalNames
  <2>5. b \in Blocks  BY <1>2 DEF SourcesOK
  <2>6. SourcesOK'  BY <1>1, <1>2, <1>5 DEF SourcesOK, CalmData
  <2>7. Placed'
    <3>1. OnHeap(b) /\ ~OnHeap(b)'  BY <1>5 DEF OnHeap
    <3>2. Stands(b, <<"heap", 0, 0>>)  BY <1>2, <2>5, <3>1, PlacedFacts
    <3>3. \A c : c # b => (OnHeap(c)' <=> OnHeap(c))  BY <1>5 DEF OnHeap
    <3>4. \A c : InPool(c)' <=> InPool(c)  BY <1>1 DEF InPool, CalmData
    <3>5. entries' = entries /\ pc[t] # "link"  BY <1>1 DEF CalmData
    <3>6. <<"heap", 0, 0>> # <<"pool", 0, 0>> /\ <<"heap", 0, 0>> # <<"list", 0, 0>>
      OBVIOUS
    <3> QED  BY <1>2, <1>3, <2>3, <2>4, <2>5, <3>1, <3>2, <3>3, <3>4, <3>5, <3>6, TakenPlaced
  <2>8. CallsOK'  BY <1>2, <1>4, <2>3, CallsAgain
  <2>9. /\ RoleOK(pc'[t], loc'[t], prodOf[t], st, created)
         /\ WriterOK(pc'[t], loc'[t], headers[loc'[t].p])
         /\ ReaderOK(pc'[t], loc'[t], entries[loc'[t].p], headers[loc'[t].p],
                     headIndex[loc'[t].p], dn[loc'[t].p])
         /\ \A u \in Threads : BothOK(pc'[t], loc'[t], pc[u], loc[u])
    BY <1>1, <2>3, <2>4, <2>5, UnlinkedGoes
  <2> QED  BY <1>1, <1>3, <2>3, <2>6, <2>7, <2>8, <2>9, CalmKeeps
<1>6. CASE pc' = [pc EXCEPT ![t] = "rewind"] /\ loc' = loc /\ heapFree' = heapFree
  <2>2. OnlyMoves(t) /\ pc'[t] = "rewind" /\ loc'[t] = loc[t] /\ "rewind" \in Unlinked
    BY <1>6 DEF OnlyMoves, IInv, Shape, Unlinked
  <2>4. SourcesOK'  BY <1>1, <1>2, <1>6 DEF SourcesOK, CalmData
  <2>5. Placed'
    <3>1. \A b \in Blocks, p \in Producers, e \in Nat : Indexed(p, e, b)' <=> Indexed(p, e, b)
      BY <1>1, SameIndexed DEF CalmData
    <3>2. UNCHANGED <<poolIndex, initialBlockPoolSize, heapFree>>
      BY <1>1, <1>6 DEF CalmData
    <3>3. pc[t] # "link" /\ pc'[t] # "link"  BY <1>1, <2>2
    <3> QED  BY <1>2, <1>3, <2>2, <3>1, <3>2, <3>3, CalmPlaced
  <2>6. CallsOK'  BY <1>2, <1>4, <2>2, CallsAgain
  <2>7. /\ RoleOK(pc'[t], loc'[t], prodOf[t], st, created)
         /\ WriterOK(pc'[t], loc'[t], headers[loc'[t].p])
         /\ ReaderOK(pc'[t], loc'[t], entries[loc'[t].p], headers[loc'[t].p],
                     headIndex[loc'[t].p], dn[loc'[t].p])
         /\ \A u \in Threads : BothOK(pc'[t], loc'[t], pc[u], loc[u])
    BY <1>1, <2>2, UnlinkedGoes
  <2> QED  BY <1>1, <1>3, <2>2, <2>4, <2>5, <2>6, <2>7, CalmKeeps
<1>7. \/ \E b \in heapFree : /\ heapFree' = heapFree \ {b} /\ loc' = [loc EXCEPT ![t].blk = b]
                             /\ pc' = [pc EXCEPT ![t] = "link"]
      \/ pc' = [pc EXCEPT ![t] = "rewind"] /\ loc' = loc /\ heapFree' = heapFree
  BY DEF FromHeap, Goto
<1> QED  BY <1>5, <1>6, <1>7

-----------------------------------------------------------------------------
(***************************************************************************)
(* Steps that change one producer.                                          *)
(***************************************************************************)
\* The others stay.
OneChanges(p) ==
    /\ UNCHANGED <<created, inactive, prodOf, initialBlockPoolSize>>
    /\ \A q \in Producers : q # p =>
          /\ entries'[q] = entries[q] /\ headers'[q] = headers[q]
          /\ tailIndex'[q] = tailIndex[q] /\ headIndex'[q] = headIndex[q]
          /\ tailBlock'[q] = tailBlock[q]

\* So do the contents of their blocks.
OthersHold(p) ==
    \A q \in 1 .. created : q # p =>
        \A e \in 1 .. Len(entries[q]) : Valued(entries[q], e) =>
            /\ cell'[entries[q][e].value] = cell[entries[q][e].value]
            /\ elementsCompletelyDequeued'[entries[q][e].value]
                   = elementsCompletelyDequeued[entries[q][e].value]

\* A thread that neither writes nor reads has no cares.
LEMMA AwayOK ==
    ASSUME NEW c, c \notin Enqueuing, c \notin Dequeuing, NEW l
    PROVE  /\ \A hs : WriterOK(c, l, hs)
           /\ \A es, hs, hd, D : ReaderOK(c, l, es, hs, hd, D)
<1>1. c \notin Unlinked /\ c \notin Readings /\ c # "link" /\ c # "unindex"
      /\ c # "entry" /\ c # "empty" /\ c \notin {"read", "empty"}
  BY DEF Enqueuing, Inserted, Dequeuing, Unlinked, Readings
<1> QED  BY <1>1 DEF WriterOK, ReaderOK

\* A step of t that changes the producer p.
LEMMA OneKeeps ==
    ASSUME CreatedOK, NEW st, NEW dn, BInvOf(st, dn), NEW st2, NEW dn2,
           NEW t \in Threads, OnlyMoves(t), NEW p \in 1 .. created, OneChanges(p), OthersHold(p),
           DOMAIN st2 = Producers, DOMAIN dn2 = Producers,
           \A q \in Producers : q # p => st2[q] = st[q] /\ dn2[q] = dn[q],
           st2[p] = st[p] \/ prodOf[t] = p, headers'[p] = headers[p] \/ prodOf[t] = p,
           \A i \in dn2[p] : i < headIndex'[p],
           PartOK(p, entries'[p], headers'[p], tailIndex'[p], tailBlock'[p], st2[p], cell',
                  elementsCompletelyDequeued', dn2[p]),
           RoleOK(pc'[t], loc'[t], prodOf[t], st2, created),
           WriterOK(pc'[t], loc'[t], headers'[loc'[t].p]),
           ReaderOK(pc'[t], loc'[t], entries'[loc'[t].p], headers'[loc'[t].p],
                    headIndex'[loc'[t].p], dn2[loc'[t].p]),
           \A u \in Threads : u # t => BothOK(pc'[t], loc'[t], pc[u], loc[u]),
           \A u \in Threads : u # t /\ loc[u].p = p =>
               ReaderOK(pc[u], loc[u], entries'[p], headers'[p], headIndex'[p], dn2[p]),
           FLInv', SourcesOK', Placed', CallsOK', TablesOK'
    PROVE  BInvOf(st2, dn2)'
<1>1. ReadersApart'  BY BInvParts, ApartAgain
<1>2. created' = created /\ inactive' = inactive /\ prodOf' = prodOf
  BY DEF OneChanges
<1>3. p \in Producers /\ created \in Nat /\ 1 .. created \subseteq Producers
  BY DEF CreatedOK
<1>4. ProducersOK(st2, dn2)'
  <2>1. ProducersOK(st, dn)  BY BInvParts
  <2>2. ASSUME NEW q \in inactive PROVE st2[q] = "none" /\ \A u \in Threads : prodOf[u] # q
    <3>1. q \in 1 .. created /\ st[q] = "none" /\ \A u \in Threads : prodOf[u] # q
      BY <2>1 DEF ProducersOK
    <3>2. st2[q] = st[q]  BY <1>3, <3>1
    <3> QED  BY <3>1, <3>2
  <2>3. ASSUME NEW q \in Producers, q > created
        PROVE  /\ entries'[q] = <<>> /\ headers'[q] = <<>> /\ tailIndex'[q] = 0 /\ headIndex'[q] = 0
               /\ st2[q] = "none" /\ dn2[q] = {}
    <3>1. q # p  BY <1>3, <2>3
    <3> QED  BY <2>1, <2>3, <3>1 DEF ProducersOK, OneChanges
  <2>4. ASSUME NEW q \in Producers, NEW i \in dn2[q] PROVE i < headIndex'[q]
    <3>1. CASE q = p  BY <3>1
    <3>2. CASE q # p  BY <2>1, <3>2 DEF ProducersOK, OneChanges
    <3> QED  BY <3>1, <3>2
  <2> QED  BY <1>2, <2>1, <2>2, <2>3, <2>4 DEF ProducersOK
<1>5. PartsOK(st2, dn2)'
  <2>1. ASSUME NEW q \in 1 .. created
        PROVE  PartOK(q, entries'[q], headers'[q], tailIndex'[q], tailBlock'[q], st2[q], cell',
                      elementsCompletelyDequeued', dn2[q])
    <3>1. CASE q = p  BY <3>1
    <3>2. CASE q # p
      <4>1. PartOK(q, entries[q], headers[q], tailIndex[q], tailBlock[q], st[q], cell,
                   elementsCompletelyDequeued, dn[q])
        BY BInvParts DEF PartsOK
      <4>2. PartOK(q, entries[q], headers[q], tailIndex[q], tailBlock[q], st[q], cell',
                   elementsCompletelyDequeued', dn[q])
        <5>1. PICK cl2 : cl2 = cell'  BY Zenon
        <5>2. PICK ec2 : ec2 = elementsCompletelyDequeued'  BY Zenon
        <5>3. \A e \in 1 .. Len(entries[q]) : Valued(entries[q], e) =>
                  /\ cl2[entries[q][e].value] = cell[entries[q][e].value]
                  /\ ec2[entries[q][e].value] = elementsCompletelyDequeued[entries[q][e].value]
          BY <3>2, <5>1, <5>2 DEF OthersHold
        <5>4. PartOK(q, entries[q], headers[q], tailIndex[q], tailBlock[q], st[q], cl2, ec2, dn[q])
          BY <4>1, <5>3, PartOther
        <5> QED  BY <5>1, <5>2, <5>4
      <4>3. q \in Producers  BY <1>3
      <4> QED  BY <3>2, <4>2, <4>3 DEF OneChanges
    <3> QED  BY <3>1, <3>2
  <2> QED  BY <1>2, <2>1 DEF PartsOK
<1>6. RolesOK(st2)'
  <2>1. ASSUME NEW u \in Threads, u # t PROVE RoleOK(pc[u], loc[u], prodOf[u], st2, created)
    <3>1. RoleOK(pc[u], loc[u], prodOf[u], st, created)  BY ThreadIs
    <3>2. prodOf[u] # 0 => st2[prodOf[u]] = st[prodOf[u]]
      <4>1. prodOf[u] # 0 => prodOf[u] \in 1 .. created  BY <1>3, <3>1 DEF RoleOK
      <4>2. prodOf[t] = p => prodOf[u] # p
        <5>1. p # 0  OBVIOUS
        <5> QED  BY <2>1, <5>1, BInvParts DEF ProducersOK
      <4> QED  BY <1>3, <4>1, <4>2
    <3> QED  BY <3>1, <3>2 DEF RoleOK
  <2>2. ASSUME NEW u \in Threads PROVE RoleOK(pc'[u], loc'[u], prodOf[u], st2, created)
    <3>1. CASE u = t  BY <3>1
    <3>2. CASE u # t  BY <2>1, <3>2 DEF OnlyMoves
    <3> QED  BY <3>1, <3>2
  <2> QED  BY <1>2, <2>2 DEF RolesOK
<1>7. ASSUME NEW u \in Threads, u # t
      PROVE  /\ WriterOK(pc[u], loc[u], headers'[loc[u].p])
             /\ ReaderOK(pc[u], loc[u], entries'[loc[u].p], headers'[loc[u].p],
                         headIndex'[loc[u].p], dn2[loc[u].p])
  <2>1. CASE pc[u] \notin Enqueuing /\ pc[u] \notin Dequeuing  BY <2>1, AwayOK
  <2>2. CASE pc[u] \in Enqueuing \/ pc[u] \in Dequeuing
    <3>1. RoleOK(pc[u], loc[u], prodOf[u], st, created)  BY ThreadIs
    <3>2. loc[u].p \in 1 .. created /\ loc[u].p \in Producers
      <4>1. loc[u].p \in 1 .. created  BY <1>3, <2>2, <3>1 DEF RoleOK
      <4> QED  BY <1>3, <4>1
    <3>3. /\ WriterOK(pc[u], loc[u], headers[loc[u].p])
          /\ ReaderOK(pc[u], loc[u], entries[loc[u].p], headers[loc[u].p],
                      headIndex[loc[u].p], dn[loc[u].p])
      BY ThreadIs
    <3>4. CASE loc[u].p = p
      <4>1. ReaderOK(pc[u], loc[u], entries'[p], headers'[p], headIndex'[p], dn2[p])
        BY <1>7, <3>4
      <4>2. WriterOK(pc[u], loc[u], headers'[p])
        <5>1. CASE headers'[p] = headers[p]  BY <3>3, <3>4, <5>1
        <5>2. CASE prodOf[t] = p
          <6>1. prodOf[u] # p
            <7>1. p # 0  OBVIOUS
            <7> QED  BY <1>7, <5>2, <7>1, BInvParts DEF ProducersOK
          <6>2. pc[u] \notin Enqueuing  BY <3>1, <3>4, <6>1 DEF RoleOK
          <6>3. pc[u] \notin Unlinked /\ pc[u] # "link"
            BY <6>2 DEF Enqueuing, Inserted, Unlinked
          <6> QED  BY <6>3 DEF WriterOK
        <5> QED  BY <5>1, <5>2
      <4> QED  BY <3>4, <4>1, <4>2
    <3>5. CASE loc[u].p # p
      <4>1. /\ entries'[loc[u].p] = entries[loc[u].p] /\ headers'[loc[u].p] = headers[loc[u].p]
            /\ headIndex'[loc[u].p] = headIndex[loc[u].p] /\ dn2[loc[u].p] = dn[loc[u].p]
        BY <3>2, <3>5 DEF OneChanges
      <4> QED  BY <3>3, <4>1
    <3> QED  BY <3>4, <3>5
  <2> QED  BY <2>1, <2>2
<1>8. WritersOK'
  <2>1. ASSUME NEW u \in Threads PROVE WriterOK(pc'[u], loc'[u], headers'[loc'[u].p])
    <3>1. CASE u = t  BY <3>1
    <3>2. CASE u # t  BY <1>7, <3>2 DEF OnlyMoves
    <3> QED  BY <3>1, <3>2
  <2> QED  BY <2>1 DEF WritersOK
<1>9. ReadersOK(dn2)'
  <2>1. ASSUME NEW u \in Threads
        PROVE  ReaderOK(pc'[u], loc'[u], entries'[loc'[u].p], headers'[loc'[u].p],
                        headIndex'[loc'[u].p], dn2[loc'[u].p])
    <3>1. CASE u = t  BY <3>1
    <3>2. CASE u # t  BY <1>7, <3>2 DEF OnlyMoves
    <3> QED  BY <3>1, <3>2
  <2> QED  BY <2>1 DEF ReadersOK
<1> QED  BY <1>1, <1>4, <1>5, <1>6, <1>8, <1>9 DEF BInvOf

\* The search still leads to the element when the index has changed behind it.
LEMMA LeadsStill ==
    ASSUME NEW es, NEW hs, NEW es2, NEW hs2, Leaves(es, hs, es2, hs2),
           NEW hdr, NEW tl, NEW i, LeadsTo(es, hs, hdr, tl, i),
           \A n \in 1 .. Len(hs) : \A s \in DOMAIN hs[n].index : hs[n].index[s] \in 1 .. Len(es)
    PROVE  LeadsTo(es2, hs2, hdr, tl, i)
<1>1. hdr \in 1 .. Len(hs) /\ tl \in DOMAIN hs[hdr].index /\ Used(es, hs[hdr].index[tl])
  BY DEF LeadsTo
<1>2. hdr \in 1 .. Len(hs2) /\ hs2[hdr].index = hs[hdr].index  BY <1>1 DEF Leaves
<1>3. Used(es2, hs2[hdr].index[tl])  BY <1>1, <1>2 DEF Leaves
<1>4. PICK s \in DOMAIN hs[hdr].index : EntryOf(es, hs[hdr].index[s], i)
  BY DEF LeadsTo
<1>5. EntryOf(es2, hs2[hdr].index[s], i)
  <2>1. PICK e : e = hs[hdr].index[s]  BY Zenon
  <2>2. e \in 1 .. Len(es2) /\ Valued(es2, e) /\ es2[e] = es[e]
    BY <1>4, <2>1, LeavesValued DEF EntryOf
  <2> QED  BY <1>2, <1>4, <2>1, <2>2 DEF EntryOf
<1> QED  BY <1>1, <1>2, <1>3, <1>4, <1>5 DEF LeadsTo

\* The slots of all headers are of entries.
LEMMA SlotsAreEntries ==
    ASSUME NEW es, NEW hs, NEW tail, NEW stage, IndexOK(es, hs, tail, stage)
    PROVE  \A n \in 1 .. Len(hs) : \A s \in DOMAIN hs[n].index : hs[n].index[s] \in 1 .. Len(es)
<1>1. ASSUME NEW n \in 1 .. Len(hs), NEW s \in DOMAIN hs[n].index
      PROVE  hs[n].index[s] \in 1 .. Len(es)
  <2>1. PICK k \in Nat : HeaderOK(hs[n], k, Len(es))  BY HeadersAligned
  <2> QED  BY <2>1 DEF HeaderOK
<1> QED  BY <1>1

\* A thread that reads goes on when the producer has changed its index, or has
\* given out another element.
LEMMA ReaderLeft ==
    ASSUME NEW es, NEW hs, NEW tail, NEW stage, IndexOK(es, hs, tail, stage),
           NEW es2, NEW hs2, Leaves(es, hs, es2, hs2), NEW hd \in Nat, NEW hd2 \in Nat, hd <= hd2,
           NEW c, NEW l, NEW D, ReaderOK(c, l, es, hs, hd, D)
    PROVE  ReaderOK(c, l, es2, hs2, hd2, D)
<1>1. c \in Readings => l.idx \in Nat /\ l.idx < hd2 /\ l.idx \notin D
  BY DEF ReaderOK
<1>2. c = "entry" => LeadsTo(es2, hs2, l.hdr, l.tl, l.idx)
  <2>1. SUFFICES ASSUME c = "entry" PROVE LeadsTo(es2, hs2, l.hdr, l.tl, l.idx)
    OBVIOUS
  <2>2. LeadsTo(es, hs, l.hdr, l.tl, l.idx)  BY <2>1 DEF ReaderOK
  <2> QED  BY <2>2, SlotsAreEntries, LeadsStill
<1>3. c \in {"read", "empty"} => EntryOf(es2, l.ent, l.idx) /\ es2[l.ent].value = l.blk
  <2>1. SUFFICES ASSUME c \in {"read", "empty"}
                 PROVE  EntryOf(es2, l.ent, l.idx) /\ es2[l.ent].value = l.blk
    OBVIOUS
  <2>2. EntryOf(es, l.ent, l.idx) /\ es[l.ent].value = l.blk  BY <2>1 DEF ReaderOK
  <2>3. PICK e : e = l.ent  BY Zenon
  <2>4. e \in 1 .. Len(es2) /\ Valued(es2, e) /\ es2[e] = es[e]
    BY <2>2, <2>3, LeavesValued DEF EntryOf
  <2> QED  BY <2>2, <2>3, <2>4 DEF EntryOf
<1>4. c = "unindex" => /\ l.ent \in 1 .. Len(es2) /\ Valued(es2, l.ent) /\ es2[l.ent].value = l.blk
                       /\ \A r \in Elements : es2[l.ent].key + r \in D
  <2>1. SUFFICES ASSUME c = "unindex"
                 PROVE  /\ l.ent \in 1 .. Len(es2) /\ Valued(es2, l.ent) /\ es2[l.ent].value = l.blk
                        /\ \A r \in Elements : es2[l.ent].key + r \in D
    OBVIOUS
  <2>2. /\ l.ent \in 1 .. Len(es) /\ Valued(es, l.ent) /\ es[l.ent].value = l.blk
        /\ \A r \in Elements : es[l.ent].key + r \in D
    BY <2>1 DEF ReaderOK
  <2>3. PICK e : e = l.ent  BY Zenon
  <2>4. e \in 1 .. Len(es2) /\ Valued(es2, e) /\ es2[e] = es[e]
    BY <2>2, <2>3, LeavesValued
  <2> QED  BY <2>2, <2>3, <2>4
<1>5. c = "empty" => l.el = <<l.p, l.idx>>  BY DEF ReaderOK
<1> QED  BY <1>1, <1>2, <1>3, <1>4, <1>5 DEF ReaderOK

\* It goes on when another element is done.
LEMMA ReaderDone ==
    ASSUME NEW es, NEW hs, NEW hd, NEW c, NEW l, NEW D, ReaderOK(c, l, es, hs, hd, D),
           NEW i, c \in Readings => l.idx # i
    PROVE  ReaderOK(c, l, es, hs, hd, D \union {i})
BY DEF ReaderOK

\* It goes on when a block whose elements are all done is given up.
LEMMA ReaderCleared ==
    ASSUME NEW es, NEW hs, NEW es2, NEW hd, NEW c, NEW l, NEW D, ReaderOK(c, l, es, hs, hd, D),
           NEW e \in 1 .. Len(es), \A r \in Elements : es[e].key + r \in D,
           Len(es2) = Len(es), es2[e].key = es[e].key,
           \A f \in 1 .. Len(es) : f # e => es2[f] = es[f],
           c = "unindex" => l.ent # e,
           \A n \in 1 .. Len(hs) : \A s \in DOMAIN hs[n].index : hs[n].index[s] \in 1 .. Len(es)
    PROVE  ReaderOK(c, l, es2, hs, hd, D)
<1>1. ASSUME NEW i \in Nat, i \notin D, NEW f, EntryOf(es, f, i)
      PROVE  f # e /\ es2[f] = es[f] /\ EntryOf(es2, f, i)
  <2>1. f # e
    <3>1. Base(i) + (i % BlockSize) = i /\ i % BlockSize \in Elements
      BY BaseIs DEF Elements
    <3> QED  BY <1>1, <3>1 DEF EntryOf
  <2>2. es2[f] = es[f]  BY <1>1, <2>1 DEF EntryOf
  <2> QED  BY <1>1, <2>1, <2>2 DEF EntryOf, Valued
<1>2. c = "entry" => LeadsTo(es2, hs, l.hdr, l.tl, l.idx)
  <2>1. SUFFICES ASSUME c = "entry" PROVE LeadsTo(es2, hs, l.hdr, l.tl, l.idx)
    OBVIOUS
  <2>2. LeadsTo(es, hs, l.hdr, l.tl, l.idx) /\ l.idx \in Nat /\ l.idx \notin D
    BY <2>1 DEF ReaderOK, Readings
  <2>3. PICK s \in DOMAIN hs[l.hdr].index : EntryOf(es, hs[l.hdr].index[s], l.idx)
    BY <2>2 DEF LeadsTo
  <2>4. EntryOf(es2, hs[l.hdr].index[s], l.idx)  BY <1>1, <2>2, <2>3
  <2>5. Used(es2, hs[l.hdr].index[l.tl])
    <3>1. PICK f : f = hs[l.hdr].index[l.tl]  BY Zenon
    <3>2. f \in 1 .. Len(es) /\ Used(es, f)  BY <2>2, <3>1 DEF LeadsTo
    <3>3. es2[f].key = es[f].key  BY <3>2
    <3> QED  BY <3>1, <3>2, <3>3 DEF Used
  <2> QED  BY <2>2, <2>3, <2>4, <2>5 DEF LeadsTo
<1>3. c \in {"read", "empty"} => EntryOf(es2, l.ent, l.idx) /\ es2[l.ent].value = l.blk
  <2>1. c \in {"read", "empty"} => l.idx \in Nat /\ l.idx \notin D
    BY DEF ReaderOK, Readings
  <2> QED  BY <1>1, <2>1 DEF ReaderOK
<1>4. c = "unindex" => /\ l.ent \in 1 .. Len(es2) /\ Valued(es2, l.ent) /\ es2[l.ent].value = l.blk
                       /\ \A r \in Elements : es2[l.ent].key + r \in D
  BY DEF ReaderOK, Valued
<1> QED  BY <1>2, <1>3, <1>4 DEF ReaderOK

-----------------------------------------------------------------------------
(***************************************************************************)
(* The steps of dequeue() that give out an element, and give up a block.    *)
(***************************************************************************)
\* The parts of a producer.
LEMMA PartIs ==
    ASSUME CreatedOK, NEW st, NEW dn, BInvOf(st, dn), NEW p \in 1 .. created
    PROVE  /\ p \in Producers
           /\ PartOK(p, entries[p], headers[p], tailIndex[p], tailBlock[p], st[p], cell,
                     elementsCompletelyDequeued, dn[p])
           /\ IndexOK(entries[p], headers[p], tailIndex[p], st[p])
           /\ Distinct(entries[p])
<1>1. p \in Producers  BY DEF CreatedOK
<1>2. PartOK(p, entries[p], headers[p], tailIndex[p], tailBlock[p], st[p], cell,
             elementsCompletelyDequeued, dn[p])
  BY BInvParts DEF PartsOK
<1>3. IndexOK(entries[p], headers[p], tailIndex[p], st[p])  BY <1>2, PartFacts
<1>4. ASSUME NEW e \in 1 .. Len(entries[p]), NEW f \in 1 .. Len(entries[p]),
             Valued(entries[p], e), Valued(entries[p], f),
             entries[p][e].value = entries[p][f].value
      PROVE  e = f
  <2>1. PICK b : b = entries[p][e].value  BY Zenon
  <2>2. b \in Blocks  BY <1>3, <1>4, <2>1, IndexFacts
  <2>3. Indexed(p, e, b) /\ Indexed(p, f, b) /\ e \in Nat /\ f \in Nat
    BY <1>4, <2>1 DEF Indexed
  <2>4. Placed  BY BInvParts
  <2> QED  BY <1>1, <2>2, <2>3, <2>4, IndexedOnce
<1> QED  BY <1>1, <1>2, <1>3, <1>4 DEF Distinct

\* A block in the entry e of p is in no entry of another producer.
LEMMA ElsewhereNot ==
    ASSUME CreatedOK, NEW st, NEW dn, BInvOf(st, dn), NEW p \in 1 .. created, NEW e \in Nat, NEW b \in Blocks,
           Indexed(p, e, b)
    PROVE  \A q \in 1 .. created : q # p =>
               \A f \in 1 .. Len(entries[q]) : entries[q][f].value # b
<1>1. ASSUME NEW q \in 1 .. created, q # p, NEW f \in 1 .. Len(entries[q]), entries[q][f].value = b
      PROVE  FALSE
  <2>1. Indexed(q, f, b) /\ f \in Nat  BY <1>1 DEF Indexed
  <2>2. p \in Producers /\ q \in Producers  BY DEF CreatedOK
  <2>3. Placed  BY BInvParts
  <2> QED  BY <1>1, <2>1, <2>2, <2>3, IndexedOnce
<1> QED  BY <1>1

\* Contents that do not change.
LEMMA SameOthers ==
    ASSUME UNCHANGED blockVars, NEW p
    PROVE  OthersHold(p)
BY DEF OthersHold, blockVars

\* An index is given out.
LEMMA TakeBInv ==
    ASSUME IInv, NEW st, NEW dn, BInvOf(st, dn), NEW t \in Threads, CheckTail(t),
           loc[t].my - loc[t].over < tailIndex[loc[t].p]
    PROVE  BInvOf(st, dn)'
<1>1. PICK p : p = loc[t].p  BY Zenon
<1>2. PICK i : i = headIndex[p]  BY Zenon
<1>3. /\ pc[t] = "tail" /\ pc' = [pc EXCEPT ![t] = "lookup"] /\ loc' = [loc EXCEPT ![t].idx = i]
      /\ headIndex' = [headIndex EXCEPT ![p] = @ + 1] /\ entries' = entries /\ headers' = headers
      /\ UNCHANGED <<created, inactive, prodOf, initialBlockPoolSize, tailIndex, tailBlock>>
      /\ UNCHANGED blockVars /\ UNCHANGED <<poolIndex, heapFree>> /\ UNCHANGED flVars
  BY <1>1, <1>2 DEF CheckTail, At, Goto, DequeueLeaves, prodList, blockSrc, blockVars
<1>4. CreatedOK /\ headIndex \in [Producers -> Nat]  BY DEF IInv, CountersOK
<1>5. p \in 1 .. created
  <2>1. pc[t] \in Dequeuing  BY <1>3 DEF Dequeuing
  <2> QED  BY <1>1, <2>1, ThreadIs DEF RoleOK
<1>6. /\ p \in Producers
      /\ PartOK(p, entries[p], headers[p], tailIndex[p], tailBlock[p], st[p], cell,
                elementsCompletelyDequeued, dn[p])
      /\ IndexOK(entries[p], headers[p], tailIndex[p], st[p])
  BY <1>4, <1>5, PartIs
<1>7. OnlyMoves(t) /\ pc'[t] = "lookup"  BY <1>3 DEF OnlyMoves, IInv, Shape
<1>8. DOMAIN loc[t] = LocalNames  BY ThreadIs, BlankIs
<1>9. DOMAIN loc'[t] = LocalNames /\ loc'[t].p = p /\ loc'[t].idx = i
  BY <1>1, <1>3, <1>8 DEF IInv, Shape, LocalNames
<1>10. i \in Nat /\ headIndex'[p] = i + 1 /\ \A q \in Producers : q # p => headIndex'[q] = headIndex[q]
  BY <1>2, <1>3, <1>4, <1>6
<1>11. OneChanges(p) /\ OthersHold(p)  BY <1>3, <1>10, SameOthers DEF OneChanges
<1>12. FLInv /\ SourcesOK /\ Placed /\ CallsOK /\ TablesOK /\ ProducersOK(st, dn)
  BY BInvParts
<1>13. FLInv' /\ \A b \in Blocks : Inside(b)' <=> Inside(b)
  BY <1>3, <1>12, StillKeeps DEF FLKept
<1>14. SourcesOK'  BY <1>3, <1>12 DEF SourcesOK
<1>15. Placed'
  <2>1. \A b \in Blocks, q \in Producers, e \in Nat : Indexed(q, e, b)' <=> Indexed(q, e, b)
    BY <1>3, SameIndexed
  <2> QED  BY <1>3, <1>7, <1>12, <1>13, <2>1, CalmPlaced
<1>16. CallsOK'
  <2>1. fl[t].at = "none"  BY <1>3, <1>12 DEF CallsOK
  <2>2. \A u \in Threads : fl'[u] = fl[u]  BY <1>3 DEF flVars
  <2> QED  BY <1>7, <1>12, <2>1, <2>2, CallsAgain
<1>17. TablesOK'  BY <1>3, <1>12 DEF TablesOK, blockVars
<1>18. i \notin dn[p] /\ \A j \in dn[p] : j < headIndex'[p]
  <2>1. \A j \in dn[p] : j < i  BY <1>2, <1>6, <1>12 DEF ProducersOK
  <2>2. dn[p] \in SUBSET Nat  BY <1>6, PartFacts
  <2> QED  BY <1>10, <2>1, <2>2
<1>19. RoleOK("lookup", loc'[t], prodOf[t], st, created)
  <2>1. RoleOK("tail", loc[t], prodOf[t], st, created)  BY <1>3, ThreadIs
  <2>2. /\ "lookup" \notin Enqueuing /\ StageAt("lookup") = StageAt("tail")
    BY DEF Enqueuing, Inserted, Unlinked, StageAt
  <2> QED  BY <1>5, <1>9, <2>1, <2>2, BlankIs DEF RoleOK
<1>20. WriterOK("lookup", loc'[t], headers'[p])  BY DEF WriterOK, Unlinked
<1>21. ReaderOK("lookup", loc'[t], entries'[p], headers'[p], headIndex'[p], dn[p])
  BY <1>9, <1>10, <1>18 DEF ReaderOK
<1>22. \A u \in Threads : u # t => BothOK("lookup", loc'[t], pc[u], loc[u])
  <2>1. ASSUME NEW u \in Threads, u # t, loc[u].p = p, pc[u] \in Readings PROVE loc[u].idx # i
    <3>1. loc[u].idx \in Nat /\ loc[u].idx < i  BY <1>2, <2>1, ThreadIs DEF ReaderOK
    <3> QED  BY <1>10, <3>1
  <2> QED  BY <1>9, <2>1 DEF BothOK
<1>23. ASSUME NEW u \in Threads, u # t, loc[u].p = p
       PROVE  ReaderOK(pc[u], loc[u], entries'[p], headers'[p], headIndex'[p], dn[p])
  <2>1. ReaderOK(pc[u], loc[u], entries[p], headers[p], i, dn[p])
    BY <1>2, <1>23, ThreadIs
  <2>2. Leaves(entries[p], headers[p], entries[p], headers[p])
    BY <1>6, PartFacts DEF Leaves
  <2>3. i + 1 \in Nat /\ i <= i + 1  BY <1>10
  <2>4. ReaderOK(pc[u], loc[u], entries[p], headers[p], i + 1, dn[p])
    BY <1>6, <1>10, <2>1, <2>2, <2>3, ReaderLeft
  <2> QED  BY <1>3, <1>10, <2>4
<1>24. PartOK(p, entries'[p], headers'[p], tailIndex'[p], tailBlock'[p], st[p], cell',
              elementsCompletelyDequeued', dn[p])
  BY <1>3, <1>6 DEF blockVars
<1>25. DOMAIN st = Producers /\ DOMAIN dn = Producers  BY <1>12 DEF ProducersOK
<1>26. headers'[p] = headers[p]  BY <1>3
<1>27. RoleOK(pc'[t], loc'[t], prodOf[t], st, created)  BY <1>7, <1>19
<1>28. WriterOK(pc'[t], loc'[t], headers'[loc'[t].p])  BY <1>7, <1>9, <1>20
<1>29. PICK dn2 : dn2 = dn  BY Zenon
<1>30. \A u \in Threads : u # t => BothOK(pc'[t], loc'[t], pc[u], loc[u])
  BY <1>7, <1>22
<1>31. \A u \in Threads : u # t /\ loc[u].p = p =>
           ReaderOK(pc[u], loc[u], entries'[p], headers'[p], headIndex'[p], dn2[p])
  BY <1>23, <1>29
<1>32. \A q \in Producers : q # p => st[q] = st[q] /\ dn2[q] = dn[q]  BY <1>29
<1>33. (st[p] = st[p] \/ prodOf[t] = p) /\ (headers'[p] = headers[p] \/ prodOf[t] = p)
  BY <1>26
<1>34. (\A j \in dn2[p] : j < headIndex'[p]) /\ DOMAIN st = Producers /\ DOMAIN dn2 = Producers
  BY <1>18, <1>25, <1>29
<1>35. ReaderOK(pc'[t], loc'[t], entries'[loc'[t].p], headers'[loc'[t].p],
                headIndex'[loc'[t].p], dn2[loc'[t].p])
  BY <1>7, <1>9, <1>21, <1>29
<1>36. PartOK(p, entries'[p], headers'[p], tailIndex'[p], tailBlock'[p], st[p], cell',
              elementsCompletelyDequeued', dn2[p])
  BY <1>24, <1>29
<1>38. CreatedOK /\ OnlyMoves(t)  BY <1>4, <1>7
<1>37. BInvOf(st, dn2)'
  BY <1>38, <1>5, <1>11, <1>13, <1>14, <1>15, <1>16, <1>17, <1>27, <1>28,
       <1>30, <1>31, <1>32, <1>33, <1>34, <1>35, <1>36, OneKeeps
<1> QED  BY <1>29, <1>37

\* An element is done, and who finds that it was the last one has the block.
LEMMA SetEmptyBInv ==
    ASSUME IInv, NEW st, NEW dn, BInvOf(st, dn), NEW t \in Threads, SetEmpty(t)
    PROVE  \E dn2 : BInvOf(st, dn2)'
<1>1. PICK p : p = loc[t].p  BY Zenon
<1>2. PICK i : i = loc[t].idx  BY Zenon
<1>3. PICK e : e = loc[t].ent  BY Zenon
<1>4. PICK b : b = loc[t].blk  BY Zenon
<1>5. /\ pc[t] = "empty"
      /\ elementsCompletelyDequeued' = [elementsCompletelyDequeued EXCEPT ![b] = @ + 1]
      /\ entries' = entries /\ headers' = headers /\ headIndex' = headIndex /\ cell' = cell
      /\ UNCHANGED <<created, inactive, prodOf, initialBlockPoolSize, tailIndex, tailBlock>>
      /\ UNCHANGED <<poolIndex, heapFree>> /\ UNCHANGED flVars
  BY <1>4 DEF SetEmpty, At, DequeueLeaves, prodList, blockSrc, counters
<1>6. pc[t] \in Readings /\ pc[t] \notin Inserted /\ CreatedOK /\ Shape
  BY <1>5 DEF Readings, Inserted, Unlinked, IInv
<1>7. /\ p \in 1 .. created /\ p \in Producers /\ i \in Nat /\ i \notin dn[p]
      /\ i < headIndex[p] /\ i < tailIndex[p]
  BY <1>1, <1>2, <1>6, ReadingIs
<1>8. EntryOf(entries[p], e, i) /\ entries[p][e].value = b
  BY <1>1, <1>2, <1>3, <1>4, <1>5, ThreadIs DEF ReaderOK
<1>9. /\ PartOK(p, entries[p], headers[p], tailIndex[p], tailBlock[p], st[p], cell,
                elementsCompletelyDequeued, dn[p])
      /\ IndexOK(entries[p], headers[p], tailIndex[p], st[p]) /\ Distinct(entries[p])
  BY <1>6, <1>7, PartIs
<1>10. b \in Blocks /\ Indexed(p, e, b) /\ e \in Nat
  <2>1. e \in 1 .. Len(entries[p]) /\ Valued(entries[p], e)  BY <1>8 DEF EntryOf
  <2>2. b \in Blocks  BY <1>8, <1>9, <2>1, IndexFacts
  <2> QED  BY <1>8, <2>1, <2>2 DEF Indexed
<1>11. FLInv /\ SourcesOK /\ Placed /\ CallsOK /\ TablesOK /\ ProducersOK(st, dn)
  BY BInvParts
<1>12. /\ DOMAIN elementsCompletelyDequeued = Blocks
       /\ elementsCompletelyDequeued'[b] = elementsCompletelyDequeued[b] + 1
       /\ \A c \in Blocks : c # b => elementsCompletelyDequeued'[c] = elementsCompletelyDequeued[c]
  BY <1>5, <1>10, <1>11 DEF TablesOK
<1>13. PICK D2 : D2 = dn[p] \union {i}  OBVIOUS
<1>14. PICK dn2 : dn2 = [dn EXCEPT ![p] = D2]  BY Zenon
<1>15. DOMAIN st = Producers /\ DOMAIN dn2 = Producers /\ dn2[p] = D2 /\ \A q \in Producers : q # p => dn2[q] = dn[q]
  BY <1>7, <1>11, <1>14 DEF ProducersOK
<1>16. /\ PartOK(p, entries[p], headers[p], tailIndex[p], tailBlock[p], st[p], cell,
                elementsCompletelyDequeued', D2)
       /\ elementsCompletelyDequeued[b] = BlockSize - 1 =>
              \A r \in Elements : entries[p][e].key + r \in D2
  <2>1. PICK ec2 : ec2 = elementsCompletelyDequeued'  BY Zenon
  <2>2. PICK es : es = entries[p]  BY Zenon
  <2>3. PICK D : D = dn[p]  OBVIOUS
  <2>4. PICK tail : tail = tailIndex[p]  BY Zenon
  <2>5. PICK ec : ec = elementsCompletelyDequeued  BY Zenon
  <2>6. /\ ec2[es[e].value] = ec[es[e].value] + 1
        /\ \A c \in Blocks : c # es[e].value => ec2[c] = ec[c]
    BY <1>8, <1>12, <2>1, <2>2, <2>5
  <2>7. PartOK(p, es, headers[p], tail, tailBlock[p], st[p], cell, ec, D) /\ Distinct(es)
    BY <1>9, <2>2, <2>3, <2>4, <2>5
  <2>8. i \in Nat /\ i \notin D /\ i < tail /\ EntryOf(es, e, i) /\ D2 = D \union {i}
    BY <1>7, <1>8, <1>13, <2>2, <2>3, <2>4
  <2>9. /\ PartOK(p, es, headers[p], tail, tailBlock[p], st[p], cell, ec2, D2)
        /\ ec[es[e].value] = BlockSize - 1 => \A r \in Elements : es[e].key + r \in D2
    <3>1. PartOK(p, es, headers[p], tail, tailBlock[p], st[p], cell, ec2, D2)
      BY <2>6, <2>7, <2>8, PartEmpties
    <3>2. ec[es[e].value] = BlockSize - 1 => \A r \in Elements : es[e].key + r \in D2
      BY <2>6, <2>7, <2>8, PartEmpties
    <3> QED  BY <3>1, <3>2
  <2> QED  BY <1>8, <2>1, <2>2, <2>4, <2>5, <2>9
<1>17. OneChanges(p)  BY <1>5 DEF OneChanges
<1>18. OthersHold(p)
  <2>1. \A q \in 1 .. created : q # p => \A f \in 1 .. Len(entries[q]) : entries[q][f].value # b
    BY <1>6, <1>7, <1>10, ElsewhereNot
  <2>2. ASSUME NEW q \in 1 .. created, q # p, NEW f \in 1 .. Len(entries[q]), Valued(entries[q], f)
        PROVE  elementsCompletelyDequeued'[entries[q][f].value]
                   = elementsCompletelyDequeued[entries[q][f].value]
    <3>1. IndexOK(entries[q], headers[q], tailIndex[q], st[q])  BY <1>6, PartIs
    <3>2. entries[q][f].value \in Blocks /\ entries[q][f].value # b
      BY <2>1, <2>2, <3>1, IndexFacts
    <3> QED  BY <1>12, <3>2
  <2> QED  BY <1>5, <2>2 DEF OthersHold
<1>19. /\ OnlyMoves(t) /\ DOMAIN loc'[t] = LocalNames
       /\ RoleOK(pc'[t], loc'[t], prodOf[t], st, created)
       /\ \/ pc'[t] \in Plain
          \/ /\ pc'[t] = "unindex" /\ loc'[t] = loc[t]
             /\ \A r \in Elements : entries[p][e].key + r \in D2
  <2>1. RoleOK(pc[t], loc[t], prodOf[t], st, created)  BY ThreadIs
  <2>2. CASE elementsCompletelyDequeued[b] = BlockSize - 1
    <3>1. pc' = [pc EXCEPT ![t] = "unindex"] /\ loc' = loc
      BY <1>4, <2>2 DEF SetEmpty, Goto
    <3>2. OnlyMoves(t) /\ pc'[t] = "unindex" /\ loc'[t] = loc[t]
      BY <1>6, <3>1 DEF OnlyMoves, Shape
    <3>3. "unindex" \notin Enqueuing /\ StageAt("unindex") = StageAt("empty")
      BY DEF Enqueuing, Inserted, Unlinked, StageAt
    <3>4. RoleOK("unindex", loc[t], prodOf[t], st, created)
      BY <1>1, <1>5, <1>7, <2>1, <3>3 DEF RoleOK
    <3> QED  BY <1>16, <2>1, <2>2, <3>2, <3>4, BlankIs DEF RoleOK
  <2>3. CASE ~(elementsCompletelyDequeued[b] = BlockSize - 1)
    <3>1. Return(t)  BY <1>4, <2>3 DEF SetEmpty
    <3>2. OnlyMoves(t) /\ pc'[t] \in Plain /\ RoleOK(pc'[t], loc'[t], prodOf[t], st, created)
      BY <1>6, <2>1, <3>1, ReturnRole
    <3> QED  BY <3>2, BlankIs DEF RoleOK
  <2> QED  BY <2>2, <2>3
<1>20. pc'[t] # "link" /\ WriterOK(pc'[t], loc'[t], headers'[loc'[t].p])
  <2>1. CASE pc'[t] \in Plain  BY <2>1, PlainOK DEF Plain
  <2>2. CASE pc'[t] = "unindex"  BY <2>2 DEF WriterOK, Unlinked
  <2> QED  BY <1>19, <2>1, <2>2
<1>21. ReaderOK(pc'[t], loc'[t], entries'[loc'[t].p], headers'[loc'[t].p],
                headIndex'[loc'[t].p], dn2[loc'[t].p])
  <2>1. CASE pc'[t] \in Plain  BY <2>1, PlainOK
  <2>2. CASE pc'[t] = "unindex" /\ loc'[t] = loc[t] /\ \A r \in Elements : entries[p][e].key + r \in D2
    <3>1. loc'[t].p = p /\ loc'[t].ent = e /\ loc'[t].blk = b
      BY <1>1, <1>3, <1>4, <2>2
    <3>2. "unindex" \notin Readings  BY DEF Readings
    <3>3. ReaderOK("unindex", loc'[t], entries[p], headers[p], headIndex[p], D2)
      BY <1>8, <2>2, <3>1, <3>2 DEF ReaderOK, EntryOf
    <3> QED  BY <1>5, <1>15, <2>2, <3>1, <3>3
  <2> QED  BY <1>19, <2>1, <2>2
<1>22. ASSUME NEW u \in Threads, u # t PROVE BothOK(pc'[t], loc'[t], pc[u], loc[u])
  <2>1. CASE pc'[t] \in Plain  BY <2>1, PlainOK
  <2>2. CASE pc'[t] = "unindex" /\ loc'[t] = loc[t]
    <3>1. SUFFICES ASSUME loc[u].p = p, pc[u] = "unindex", loc[u].ent = e PROVE FALSE
      <4>1. "unindex" \notin Readings  BY DEF Readings
      <4> QED  BY <1>1, <1>3, <2>2, <4>1 DEF BothOK
    <3>2. \A r \in Elements : entries[p][e].key + r \in dn[p]
      BY <3>1, ThreadIs DEF ReaderOK
    <3>3. Base(i) + (i % BlockSize) = i /\ i % BlockSize \in Elements
      BY <1>7, BaseIs DEF Elements
    <3> QED  BY <1>7, <1>8, <3>2, <3>3 DEF EntryOf
  <2> QED  BY <1>19, <2>1, <2>2
<1>23. ASSUME NEW u \in Threads, u # t, loc[u].p = p
       PROVE  ReaderOK(pc[u], loc[u], entries'[p], headers'[p], headIndex'[p], dn2[p])
  <2>1. ReaderOK(pc[u], loc[u], entries[p], headers[p], headIndex[p], dn[p])
    BY <1>23, ThreadIs
  <2>2. pc[u] \in Readings => loc[u].idx # i
    <3>1. BothOK(pc[t], loc[t], pc[u], loc[u])  BY <1>23, ThreadIs
    <3> QED  BY <1>1, <1>2, <1>6, <1>23, <3>1 DEF BothOK
  <2>3. ReaderOK(pc[u], loc[u], entries[p], headers[p], headIndex[p], D2)
    BY <1>13, <2>1, <2>2, ReaderDone
  <2> QED  BY <1>5, <1>15, <2>3
<1>24. FLInv' /\ \A c \in Blocks : Inside(c)' <=> Inside(c)
  BY <1>5, <1>11, StillKeeps DEF FLKept
<1>25. SourcesOK'  BY <1>5, <1>11 DEF SourcesOK
<1>26. Placed'
  <2>1. \A c \in Blocks, q \in Producers, f \in Nat : Indexed(q, f, c)' <=> Indexed(q, f, c)
    BY <1>5, SameIndexed
  <2> QED  BY <1>5, <1>11, <1>19, <1>20, <1>24, <2>1, CalmPlaced
<1>27. CallsOK'
  <2>1. fl[t].at = "none"  BY <1>5, <1>11 DEF CallsOK
  <2>2. \A u \in Threads : fl'[u] = fl[u]  BY <1>5 DEF flVars
  <2> QED  BY <1>11, <1>19, <2>1, <2>2, CallsAgain
<1>28. TablesOK'  BY <1>5, <1>11 DEF TablesOK
<1>29. \A j \in dn2[p] : j < headIndex'[p]
  BY <1>5, <1>7, <1>11, <1>13, <1>15 DEF ProducersOK
<1>30. PartOK(p, entries'[p], headers'[p], tailIndex'[p], tailBlock'[p], st[p], cell',
              elementsCompletelyDequeued', dn2[p])
  BY <1>5, <1>15, <1>16
<1>31. headers'[p] = headers[p]  BY <1>5
<1>33. \A u \in Threads : u # t => BothOK(pc'[t], loc'[t], pc[u], loc[u])  BY <1>22
<1>34. \A u \in Threads : u # t /\ loc[u].p = p =>
           ReaderOK(pc[u], loc[u], entries'[p], headers'[p], headIndex'[p], dn2[p])
  BY <1>23
<1>35. \A q \in Producers : q # p => st[q] = st[q] /\ dn2[q] = dn[q]  BY <1>15
<1>36. (st[p] = st[p] \/ prodOf[t] = p) /\ (headers'[p] = headers[p] \/ prodOf[t] = p)
  BY <1>31
<1>37. RoleOK(pc'[t], loc'[t], prodOf[t], st, created) /\ WriterOK(pc'[t], loc'[t], headers'[loc'[t].p])
  BY <1>19, <1>20
<1>32. BInvOf(st, dn2)'
  BY <1>6, <1>7, <1>15, <1>17, <1>18, <1>19, <1>21, <1>24, <1>25, <1>26, <1>27,
       <1>28, <1>29, <1>30, <1>33, <1>34, <1>35, <1>36, <1>37, OneKeeps
<1> QED  BY <1>32

-----------------------------------------------------------------------------
(***************************************************************************)
(* The step of dequeue() that gives a block up.                             *)
(***************************************************************************)
\* A block comes to y, and is nowhere else.
LEMMA ArrivesPlaced ==
    ASSUME Placed, NEW b \in Blocks, NEW y, Stands(b, y)', \A z : Stands(b, z)' => z = y,
           \A c \in Blocks : c # b => Stays(c)
    PROVE  Placed'
<1>1. PlacedAt(b)'  BY DEF PlacedAt
<1>2. ASSUME NEW c \in Blocks, c # b PROVE PlacedAt(c)'
  <2>1. PlacedAt(c) /\ Stays(c)  BY <1>2 DEF Placed
  <2> QED  BY <2>1, StaysPlaced
<1>3. \A c \in Blocks : PlacedAt(c)'  BY <1>1, <1>2
<1> QED  BY <1>3 DEF Placed

\* A block goes from an entry of the index to the heap or the free list.
LEMMA GivenPlaced ==
    ASSUME Placed, NEW t \in Threads, OnlyMoves(t), pc[t] # "link", pc'[t] # "link",
           UNCHANGED <<poolIndex, initialBlockPoolSize>>,
           NEW b \in Blocks, NEW p \in Producers, NEW e \in Nat, Indexed(p, e, b), ~Indexed(p, e, b)',
           \A c \in Blocks, q \in Producers, f \in Nat :
               c # b \/ q # p \/ f # e => (Indexed(q, f, c)' <=> Indexed(q, f, c)),
           \A c \in Blocks : c # b => (OnHeap(c)' <=> OnHeap(c)) /\ (Inside(c)' <=> Inside(c)),
           (OnHeap(b)' /\ ~Inside(b)') \/ (Inside(b)' /\ ~OnHeap(b)')
    PROVE  Placed'
<1>1. \A u \in Threads : \A c : Linking(u, c)' <=> Linking(u, c)
  BY DEF Linking, OnlyMoves
<1>2. \A c : InPool(c)' <=> InPool(c)  BY DEF InPool
<1>3. \A c \in Blocks : c # b => Stays(c)  BY <1>1, <1>2 DEF Stays
<1>4. /\ ~InPool(b)' /\ \A u \in Threads : ~Linking(u, b)'
      /\ \A q \in Producers, f \in Nat : ~Indexed(q, f, b)'
  <2>1. ~InPool(b) /\ \A u \in Threads : ~Linking(u, b)  BY IndexedOnce
  <2>2. \A q \in Producers : \A f \in Nat : Indexed(q, f, b) => q = p /\ f = e
    BY IndexedOnce
  <2> QED  BY <1>1, <1>2, <2>1, <2>2
<1>5. CASE OnHeap(b)' /\ ~Inside(b)'
  <2>1. Stands(b, <<"heap", 0, 0>>)'  BY <1>5 DEF Stands
  <2>2. \A z : Stands(b, z)' => z = <<"heap", 0, 0>>  BY <1>4, <1>5 DEF Stands
  <2> QED  BY <1>3, <2>1, <2>2, ArrivesPlaced
<1>6. CASE Inside(b)' /\ ~OnHeap(b)'
  <2>1. Stands(b, <<"list", 0, 0>>)'  BY <1>6 DEF Stands
  <2>2. \A z : Stands(b, z)' => z = <<"list", 0, 0>>  BY <1>4, <1>6, Zenon DEF Stands
  <2> QED  BY <1>3, <2>1, <2>2, ArrivesPlaced
<1> QED  BY <1>5, <1>6

\* What GiveUpBlock does to the producer.
LEMMA GiveUpIs ==
    ASSUME IInv, NEW st, NEW dn, BInvOf(st, dn), NEW t \in Threads, GiveUpBlock(t),
           NEW p, p = loc[t].p, NEW e, e = loc[t].ent
    PROVE  /\ pc[t] = "unindex" /\ p \in 1 .. created /\ p \in Producers
           /\ e \in 1 .. Len(entries[p]) /\ Valued(entries[p], e) /\ entries[p][e].value = loc[t].blk
           /\ \A r \in Elements : entries[p][e].key + r \in dn[p]
           /\ entries'[p] = WithValue(entries[p], e, Null)
           /\ \A q \in Producers : q # p => entries'[q] = entries[q]
           /\ DOMAIN entries' = Producers
           /\ headers' = headers /\ headIndex' = headIndex /\ UNCHANGED blockVars
           /\ UNCHANGED <<created, inactive, prodOf, initialBlockPoolSize, poolIndex, tailIndex, tailBlock>>
<1>1. /\ pc[t] = "unindex" /\ entries' = [entries EXCEPT ![p][e].value = Null]
      /\ headers' = headers /\ headIndex' = headIndex /\ UNCHANGED blockVars
      /\ UNCHANGED <<created, inactive, prodOf, initialBlockPoolSize, poolIndex, tailIndex, tailBlock>>
  BY DEF GiveUpBlock, At, DequeueLeaves, prodList, counters, blockVars
<1>2. p \in 1 .. created
  <2>1. pc[t] \in Dequeuing  BY <1>1 DEF Dequeuing
  <2> QED  BY <2>1, ThreadIs DEF RoleOK
<1>3. p \in Producers  BY <1>2 DEF IInv, CreatedOK
<1>4. DOMAIN entries = Producers  BY BInvParts DEF TablesOK
<1>5. /\ e \in 1 .. Len(entries[p]) /\ Valued(entries[p], e) /\ entries[p][e].value = loc[t].blk
      /\ \A r \in Elements : entries[p][e].key + r \in dn[p]
  BY <1>1, ThreadIs DEF ReaderOK
<1>6. entries'[p] = WithValue(entries[p], e, Null)
  BY <1>1, <1>3, <1>4 DEF WithValue
<1>7. DOMAIN entries' = Producers /\ \A q \in Producers : q # p => entries'[q] = entries[q]
  BY <1>1, <1>4
<1> QED  BY <1>1, <1>2, <1>3, <1>5, <1>6, <1>7

\* Where the block goes, and the thread.
LEMMA GiveUpGoes ==
    ASSUME IInv, NEW st, NEW dn, BInvOf(st, dn), NEW t \in Threads, GiveUpBlock(t),
           NEW b \in Blocks, b = loc[t].blk, ~Inside(b), ~OnHeap(b)
    PROVE  /\ OnlyMoves(t) /\ pc'[t] \in Plain /\ RoleOK(pc'[t], loc'[t], prodOf[t], st, created)
           /\ FLInv' /\ heapFree' \in SUBSET Blocks
           /\ pc'[t] \in {"freeList", "adding"} \/ fl'[t].at = "none"
           /\ \A u \in Threads : u # t => fl'[u] = fl[u]
           /\ \A c \in Blocks : c # b => (OnHeap(c)' <=> OnHeap(c)) /\ (Inside(c)' <=> Inside(c))
           /\ (OnHeap(b)' /\ ~Inside(b)') \/ (Inside(b)' /\ ~OnHeap(b)')
<1>1. pc[t] = "unindex" /\ pc[t] \notin Inserted /\ Shape
  BY DEF GiveUpBlock, At, Inserted, Unlinked, IInv
<1>2. FLInv /\ SourcesOK /\ CallsOK /\ DOMAIN fl = Threads /\ fl[t].at = "none"
  BY <1>1, BInvParts, CallIs DEF CallsOK
<1>3. RoleOK(pc[t], loc[t], prodOf[t], st, created) /\ DOMAIN loc[t] = LocalNames
  BY ThreadIs, BlankIs
<1>4. CASE heapFree' = heapFree \union {b} /\ Return(t) /\ UNCHANGED flVars
  <2>1. OnlyMoves(t) /\ pc'[t] \in Plain /\ RoleOK(pc'[t], loc'[t], prodOf[t], st, created)
    BY <1>1, <1>3, <1>4, ReturnRole
  <2>2. FLInv' /\ \A c \in Blocks : Inside(c)' <=> Inside(c)
    BY <1>2, <1>4, StillKeeps DEF FLKept
  <2>3. heapFree' \in SUBSET Blocks  BY <1>2, <1>4 DEF SourcesOK
  <2>4. OnHeap(b)' /\ \A c \in Blocks : c # b => (OnHeap(c)' <=> OnHeap(c))
    BY <1>4 DEF OnHeap
  <2>5. fl' = fl  BY <1>4 DEF flVars
  <2> QED  BY <1>2, <2>1, <2>2, <2>3, <2>4, <2>5
<1>5. CASE /\ fl' = [fl EXCEPT ![t] = [NoCall EXCEPT !.at = "add", !.node = b]] /\ ListStill
           /\ pc' = [pc EXCEPT ![t] = "adding"] /\ heapFree' = heapFree /\ loc' = loc
  <2>1. OnlyMoves(t) /\ pc'[t] = "adding" /\ loc'[t] = loc[t]
    BY <1>1, <1>5 DEF OnlyMoves, Shape
  <2>2. "adding" \in Plain  BY DEF Plain
  <2>3. RoleOK("adding", loc[t], prodOf[t], st, created)
    BY <1>1, <1>3, <2>2, RolePlain
  <2>4. FLInv' /\ Inside(b)' /\ \A c \in Blocks : c # b => (Inside(c)' <=> Inside(c))
    BY <1>2, <1>5, GiveKeeps, Zenon
  <2>5. \A c : OnHeap(c)' <=> OnHeap(c)  BY <1>5 DEF OnHeap
  <2>6. \A u \in Threads : u # t => fl'[u] = fl[u]  BY <1>2, <1>5
  <2>7. heapFree' \in SUBSET Blocks  BY <1>2, <1>5 DEF SourcesOK
  <2> QED  BY <2>1, <2>2, <2>3, <2>4, <2>5, <2>6, <2>7
<1>6. \/ heapFree' = heapFree \union {b} /\ Return(t) /\ UNCHANGED flVars
      \/ /\ fl' = [fl EXCEPT ![t] = [NoCall EXCEPT !.at = "add", !.node = b]] /\ ListStill
         /\ pc' = [pc EXCEPT ![t] = "adding"] /\ heapFree' = heapFree /\ loc' = loc
  BY DEF GiveUpBlock, Goto, flVars, ListStill
<1> QED  BY <1>4, <1>5, <1>6

\* A block whose elements are all done is given up.
LEMMA GiveUpBInv ==
    ASSUME IInv, NEW st, NEW dn, BInvOf(st, dn), NEW t \in Threads, GiveUpBlock(t)
    PROVE  BInvOf(st, dn)'
<1>1. PICK p : p = loc[t].p  BY Zenon
<1>2. PICK e : e = loc[t].ent  BY Zenon
<1>3. PICK b : b = loc[t].blk  BY Zenon
<1>4. PICK es : es = entries[p]  BY Zenon
<1>5. PICK es2 : es2 = WithValue(es, e, Null)  BY Zenon
<1>6. /\ pc[t] = "unindex" /\ p \in 1 .. created /\ p \in Producers
      /\ e \in 1 .. Len(es) /\ Valued(es, e) /\ es[e].value = b
      /\ \A r \in Elements : es[e].key + r \in dn[p]
      /\ entries'[p] = es2 /\ DOMAIN entries' = Producers
      /\ \A q \in Producers : q # p => entries'[q] = entries[q]
      /\ headers' = headers /\ headIndex' = headIndex /\ UNCHANGED blockVars
      /\ UNCHANGED <<created, inactive, prodOf, initialBlockPoolSize, poolIndex, tailIndex, tailBlock>>
  BY <1>1, <1>2, <1>3, <1>4, <1>5, GiveUpIs
<1>7. CreatedOK /\ Shape  BY DEF IInv
<1>8. /\ PartOK(p, es, headers[p], tailIndex[p], tailBlock[p], st[p], cell,
                elementsCompletelyDequeued, dn[p])
      /\ IndexOK(es, headers[p], tailIndex[p], st[p])
  BY <1>4, <1>6, <1>7, PartIs
<1>9. b \in Blocks /\ e \in Nat /\ Indexed(p, e, b)
  <2>1. b \in Blocks  BY <1>6, <1>8, IndexFacts
  <2> QED  BY <1>4, <1>6, <2>1 DEF Indexed
<1>10. FLInv /\ SourcesOK /\ Placed /\ CallsOK /\ TablesOK /\ ProducersOK(st, dn)
  BY BInvParts
<1>11. ~Inside(b) /\ ~OnHeap(b)  BY <1>6, <1>9, <1>10, IndexedOnce
<1>12. /\ OnlyMoves(t) /\ pc'[t] \in Plain /\ RoleOK(pc'[t], loc'[t], prodOf[t], st, created)
       /\ FLInv' /\ heapFree' \in SUBSET Blocks
       /\ pc'[t] \in {"freeList", "adding"} \/ fl'[t].at = "none"
       /\ \A u \in Threads : u # t => fl'[u] = fl[u]
       /\ \A c \in Blocks : c # b => (OnHeap(c)' <=> OnHeap(c)) /\ (Inside(c)' <=> Inside(c))
       /\ (OnHeap(b)' /\ ~Inside(b)') \/ (Inside(b)' /\ ~OnHeap(b)')
  BY <1>3, <1>9, <1>11, GiveUpGoes
<1>13. /\ PartOK(p, es2, headers[p], tailIndex[p], tailBlock[p], st[p], cell,
                 elementsCompletelyDequeued, dn[p])
       /\ Len(es2) = Len(es) /\ es2[e].key = es[e].key /\ ~Valued(es2, e)
       /\ \A f \in 1 .. Len(es) : f # e => es2[f] = es[f]
  BY <1>5, <1>6, <1>8, PartClears
<1>14. SourcesOK'  BY <1>6, <1>10, <1>12 DEF SourcesOK
<1>15. TablesOK'  BY <1>6, <1>10 DEF TablesOK, blockVars
<1>16. CallsOK'  BY <1>10, <1>12, CallsAgain
<1>17. Placed'
  <2>1. ~Indexed(p, e, b)'  BY <1>6, <1>9, <1>13, BlocksAre DEF Indexed, Valued
  <2>2. ASSUME NEW c \in Blocks, NEW q \in Producers, NEW f \in Nat, c # b \/ q # p \/ f # e
        PROVE  Indexed(q, f, c)' <=> Indexed(q, f, c)
    <3>1. CASE q # p  BY <1>6, <3>1 DEF Indexed
    <3>2. CASE q = p /\ f # e  BY <1>4, <1>6, <1>13, <3>2 DEF Indexed
    <3>3. CASE q = p /\ f = e
      BY <1>4, <1>6, <1>13, <2>2, <3>3, BlocksAre DEF Indexed, Valued
    <3> QED  BY <3>1, <3>2, <3>3
  <2>3. pc[t] # "link" /\ pc'[t] # "link"  BY <1>6, <1>12 DEF Plain
  <2> QED  BY <1>6, <1>9, <1>10, <1>12, <2>1, <2>2, <2>3, GivenPlaced
<1>18. OneChanges(p) /\ OthersHold(p)  BY <1>6, SameOthers DEF OneChanges
<1>19. DOMAIN st = Producers /\ DOMAIN dn = Producers /\ \A i \in dn[p] : i < headIndex'[p]
  BY <1>6, <1>10 DEF ProducersOK
<1>20. PICK dn2 : dn2 = dn  BY Zenon
<1>21. ASSUME NEW u \in Threads, u # t, loc[u].p = p
       PROVE  ReaderOK(pc[u], loc[u], entries'[p], headers'[p], headIndex'[p], dn2[p])
  <2>1. ReaderOK(pc[u], loc[u], es, headers[p], headIndex[p], dn[p])
    BY <1>4, <1>21, ThreadIs
  <2>2. pc[u] = "unindex" => loc[u].ent # e
    <3>1. BothOK(pc[t], loc[t], pc[u], loc[u])  BY <1>21, ThreadIs
    <3> QED  BY <1>1, <1>2, <1>6, <1>21, <3>1 DEF BothOK
  <2>3. \A n \in 1 .. Len(headers[p]) : \A s \in DOMAIN headers[p][n].index :
            headers[p][n].index[s] \in 1 .. Len(es)
    BY <1>8, SlotsAreEntries
  <2>4. ReaderOK(pc[u], loc[u], es2, headers[p], headIndex[p], dn[p])
    BY <1>6, <1>13, <2>1, <2>2, <2>3, ReaderCleared
  <2> QED  BY <1>6, <1>20, <2>4
<1>22. /\ ReaderOK(pc'[t], loc'[t], entries'[loc'[t].p], headers'[loc'[t].p],
                   headIndex'[loc'[t].p], dn2[loc'[t].p])
       /\ RoleOK(pc'[t], loc'[t], prodOf[t], st, created)
       /\ WriterOK(pc'[t], loc'[t], headers'[loc'[t].p])
  BY <1>12, PlainOK
<1>23. \A u \in Threads : u # t => BothOK(pc'[t], loc'[t], pc[u], loc[u])
  BY <1>12, PlainOK
<1>24. \A u \in Threads : u # t /\ loc[u].p = p =>
           ReaderOK(pc[u], loc[u], entries'[p], headers'[p], headIndex'[p], dn2[p])
  BY <1>21
<1>25. \A q \in Producers : q # p => st[q] = st[q] /\ dn2[q] = dn[q]  BY <1>20
<1>26. (st[p] = st[p] \/ prodOf[t] = p) /\ (headers'[p] = headers[p] \/ prodOf[t] = p)
  BY <1>6
<1>27. (\A j \in dn2[p] : j < headIndex'[p]) /\ DOMAIN st = Producers /\ DOMAIN dn2 = Producers
  BY <1>19, <1>20
<1>28. PartOK(p, entries'[p], headers'[p], tailIndex'[p], tailBlock'[p], st[p], cell',
              elementsCompletelyDequeued', dn2[p])
  BY <1>6, <1>13, <1>20 DEF blockVars
<1>29. CreatedOK /\ OnlyMoves(t) /\ p \in 1 .. created /\ FLInv'
  BY <1>6, <1>7, <1>12
<1>30. BInvOf(st, dn2)'
  BY <1>14, <1>15, <1>16, <1>17, <1>18, <1>22, <1>23, <1>24, <1>25, <1>26, <1>27, <1>28, <1>29, OneKeeps
<1> QED  BY <1>20, <1>30

-----------------------------------------------------------------------------
(***************************************************************************)
(* The steps of enqueue() that link a block and store an element.           *)
(***************************************************************************)
\* A thread in enqueue() has its own producer, at the stage of its place.
LEMMA WritingIs ==
    ASSUME IInv, NEW st, NEW dn, BInvOf(st, dn), NEW t \in Threads, pc[t] \in Enqueuing,
           NEW p, p = loc[t].p
    PROVE  /\ prodOf[t] = p /\ p # 0 /\ p \in 1 .. created /\ p \in Producers
           /\ st[p] = StageAt(pc[t]) /\ DOMAIN loc[t] = LocalNames
           /\ PartOK(p, entries[p], headers[p], tailIndex[p], tailBlock[p], st[p], cell,
                     elementsCompletelyDequeued, dn[p])
           /\ IndexOK(entries[p], headers[p], tailIndex[p], st[p]) /\ Distinct(entries[p])
<1>1. RoleOK(pc[t], loc[t], prodOf[t], st, created) /\ DOMAIN loc[t] = LocalNames
  BY ThreadIs, BlankIs
<1>2. prodOf[t] = p /\ p # 0 /\ prodOf[t] \in 0 .. created /\ st[p] = StageAt(pc[t])
  BY <1>1 DEF RoleOK
<1>3. CreatedOK /\ created \in Nat  BY DEF IInv, CreatedOK
<1>4. p \in 1 .. created  BY <1>2, <1>3
<1> QED  BY <1>1, <1>2, <1>3, <1>4, PartIs

\* A step of the thread that writes: the others still read.
LEMMA OthersRead ==
    ASSUME NEW st, NEW dn, BInvOf(st, dn), NEW p, NEW tail, NEW stage,
           NEW hd \in Nat, headIndex[p] = hd, IndexOK(entries[p], headers[p], tail, stage),
           NEW es2, NEW hs2, Leaves(entries[p], headers[p], es2, hs2), NEW D, D = dn[p]
    PROVE  \A u \in Threads : loc[u].p = p => ReaderOK(pc[u], loc[u], es2, hs2, hd, D)
<1>1. ASSUME NEW u \in Threads, loc[u].p = p PROVE ReaderOK(pc[u], loc[u], es2, hs2, hd, D)
  <2>1. ReaderOK(pc[u], loc[u], entries[p], headers[p], hd, D)  BY <1>1, ThreadIs
  <2>2. hd <= hd  OBVIOUS
  <2> QED  BY <2>1, <2>2, ReaderLeft
<1> QED  BY <1>1

\* A block comes from the hand of t into an entry.
LEMMA LinkedPlaced ==
    ASSUME Placed, NEW t \in Threads, OnlyMoves(t), pc[t] = "link", pc'[t] # "link",
           UNCHANGED <<poolIndex, initialBlockPoolSize, heapFree>>,
           \A c \in Blocks : Inside(c)' <=> Inside(c),
           NEW b \in Blocks, loc[t].blk = b,
           NEW p \in Producers, NEW e \in Nat, Indexed(p, e, b)',
           \A c \in Blocks, q \in Producers, f \in Nat :
               c # b \/ q # p \/ f # e => (Indexed(q, f, c)' <=> Indexed(q, f, c))
    PROVE  Placed'
<1>1. Linking(t, b) /\ \A c : ~Linking(t, c)'  BY DEF Linking
<1>2. \A u \in Threads : \A c : u # t => (Linking(u, c)' <=> Linking(u, c))
  BY DEF Linking, OnlyMoves
<1>3. \A c : c # b => ~Linking(t, c)  BY DEF Linking
<1>4. \A c : (InPool(c)' <=> InPool(c)) /\ (OnHeap(c)' <=> OnHeap(c))
  BY DEF InPool, OnHeap
<1>5. \A c \in Blocks : c # b => Stays(c)  BY <1>1, <1>2, <1>3, <1>4 DEF Stays
<1>6. ~InPool(b) /\ ~OnHeap(b) /\ ~Inside(b) /\ (\A u \in Threads : Linking(u, b) => t = u)
  BY <1>1, IndexedOnce
<1>7. \A q \in Producers, f \in Nat : ~Indexed(q, f, b)  BY <1>1, IndexedOnce
<1>8. /\ ~InPool(b)' /\ ~OnHeap(b)' /\ ~Inside(b)' /\ \A u \in Threads : ~Linking(u, b)'
      /\ \A q \in Producers, f \in Nat : Indexed(q, f, b)' => q = p /\ f = e
  BY <1>1, <1>2, <1>4, <1>6, <1>7
<1>9. Stands(b, <<"index", p, e>>)'  BY DEF Stands
<1>10. \A z : Stands(b, z)' => z = <<"index", p, e>>  BY <1>8, Zenon DEF Stands
<1> QED  BY <1>5, <1>9, <1>10, ArrivesPlaced

\* What LinkBlock does.
LEMMA LinkIs ==
    ASSUME IInv, NEW st, NEW dn, BInvOf(st, dn), NEW t \in Threads, LinkBlock(t),
           NEW p, p = loc[t].p, NEW b, b = loc[t].blk, NEW e, e = loc[t].ent
    PROVE  /\ pc[t] = "link" /\ pc[t] \in Enqueuing /\ pc' = [pc EXCEPT ![t] = "store"] /\ loc' = loc
           /\ elementsCompletelyDequeued' = [elementsCompletelyDequeued EXCEPT ![b] = 0]
           /\ entries' = [entries EXCEPT ![p] = WithValue(@, e, b)]
           /\ tailBlock' = [tailBlock EXCEPT ![p] = b]
           /\ headers' = headers /\ headIndex' = headIndex /\ cell' = cell
           /\ UNCHANGED <<created, inactive, prodOf, initialBlockPoolSize, poolIndex, heapFree, tailIndex>>
           /\ UNCHANGED flVars
           /\ b \in Blocks /\ e = TailEntry(headers[p][Len(headers[p])])
<1>1. /\ pc[t] = "link" /\ pc' = [pc EXCEPT ![t] = "store"] /\ loc' = loc
      /\ elementsCompletelyDequeued' = [elementsCompletelyDequeued EXCEPT ![b] = 0]
      /\ entries' = [entries EXCEPT ![p][e].value = b]
      /\ tailBlock' = [tailBlock EXCEPT ![p] = b]
      /\ headers' = headers /\ headIndex' = headIndex /\ cell' = cell
      /\ UNCHANGED <<created, inactive, prodOf, initialBlockPoolSize, poolIndex, heapFree, tailIndex>>
      /\ UNCHANGED flVars
  BY DEF LinkBlock, At, Goto, prodList, counters, blockSrc
<1>2. entries' = [entries EXCEPT ![p] = WithValue(@, e, b)]  BY <1>1 DEF WithValue
<1>3. pc[t] \in Enqueuing /\ pc[t] \in Unlinked
  BY <1>1 DEF Enqueuing, Inserted, Unlinked
<1>4. b \in Blocks /\ e = TailEntry(headers[p][Len(headers[p])])
  BY <1>1, <1>3, ThreadIs DEF WriterOK
<1> QED  BY <1>1, <1>2, <1>3, <1>4, Zenon

\* The block is linked.
LEMMA LinkBInv ==
    ASSUME IInv, NEW st, NEW dn, BInvOf(st, dn), NEW t \in Threads, LinkBlock(t)
    PROVE  \E st2 : BInvOf(st2, dn)'
<1>1. PICK p : p = loc[t].p  BY Zenon
<1>2. PICK e : e = loc[t].ent  BY Zenon
<1>3. PICK b : b = loc[t].blk  BY Zenon
<1>4. PICK es : es = entries[p]  BY Zenon
<1>5. PICK es2 : es2 = WithValue(es, e, b)  BY Zenon
<1>6. /\ pc[t] = "link" /\ pc[t] \in Enqueuing /\ pc' = [pc EXCEPT ![t] = "store"] /\ loc' = loc
      /\ elementsCompletelyDequeued' = [elementsCompletelyDequeued EXCEPT ![b] = 0]
      /\ entries' = [entries EXCEPT ![p] = WithValue(@, e, b)]
      /\ tailBlock' = [tailBlock EXCEPT ![p] = b]
      /\ headers' = headers /\ headIndex' = headIndex /\ cell' = cell
      /\ UNCHANGED <<created, inactive, prodOf, initialBlockPoolSize, poolIndex, heapFree, tailIndex>>
      /\ UNCHANGED flVars
      /\ b \in Blocks /\ e = TailEntry(headers[p][Len(headers[p])])
  BY <1>1, <1>2, <1>3, LinkIs
<1>7. /\ prodOf[t] = p /\ p # 0 /\ p \in 1 .. created /\ p \in Producers
      /\ st[p] = StageAt(pc[t]) /\ DOMAIN loc[t] = LocalNames
      /\ PartOK(p, es, headers[p], tailIndex[p], tailBlock[p], st[p], cell,
                elementsCompletelyDequeued, dn[p])
      /\ IndexOK(es, headers[p], tailIndex[p], st[p])
  BY <1>1, <1>4, <1>6, WritingIs
<1>8. st[p] = "unlinked" /\ StageAt("store") = "linked"
  BY <1>6, <1>7 DEF StageAt, Unlinked
<1>9. FLInv /\ SourcesOK /\ Placed /\ CallsOK /\ TablesOK /\ ProducersOK(st, dn) /\ CreatedOK
  BY BInvParts DEF IInv
<1>10. OnlyMoves(t) /\ pc'[t] = "store" /\ loc'[t] = loc[t]
  BY <1>6 DEF OnlyMoves, IInv, Shape
<1>11. /\ entries'[p] = es2 /\ tailBlock'[p] = b /\ DOMAIN entries' = Producers /\ DOMAIN tailBlock' = Producers
       /\ \A q \in Producers : q # p => entries'[q] = entries[q] /\ tailBlock'[q] = tailBlock[q]
  BY <1>4, <1>5, <1>6, <1>7, <1>9 DEF TablesOK
<1>12. \A q \in Producers, f \in Nat : ~Indexed(q, f, b)
  BY <1>3, <1>6, <1>9, IndexedOnce DEF Linking
<1>13. Lacks(es, b)
  <2>1. IndexOK(es, headers[p], tailIndex[p], st[p]) /\ Len(es) \in Nat
    BY <1>7, PartFacts
  <2> QED  BY <1>4, <1>7, <1>12, <2>1 DEF Lacks, Indexed
<1>14. /\ DOMAIN elementsCompletelyDequeued' = Blocks /\ elementsCompletelyDequeued'[b] = 0
       /\ \A x \in Blocks : x # b => elementsCompletelyDequeued'[x] = elementsCompletelyDequeued[x]
  BY <1>6, <1>9 DEF TablesOK
<1>15. /\ PartOK(p, es2, headers[p], tailIndex[p], b, "linked", cell, elementsCompletelyDequeued', dn[p])
       /\ Leaves(es, headers[p], es2, headers[p]) /\ e \in 1 .. Len(es) /\ ~Valued(es, e)
  <2>1. PICK ec2 : ec2 = elementsCompletelyDequeued'  BY Zenon
  <2>2. ec2[b] = 0 /\ \A x \in Blocks : x # b => ec2[x] = elementsCompletelyDequeued[x]
    BY <1>14, <2>1
  <2>3. PartOK(p, es, headers[p], tailIndex[p], tailBlock[p], "unlinked", cell,
               elementsCompletelyDequeued, dn[p])
    BY <1>7, <1>8
  <2>4. PartOK(p, es2, headers[p], tailIndex[p], b, "linked", cell, ec2, dn[p])
    BY <1>5, <1>6, <1>13, <2>2, <2>3, PartLinks
  <2>5. Leaves(es, headers[p], es2, headers[p]) /\ e \in 1 .. Len(es) /\ ~Valued(es, e)
    BY <1>5, <1>6, <1>13, <2>2, <2>3, PartLinks
  <2> QED  BY <2>1, <2>4, <2>5
<1>16. /\ es2[e].value = b /\ Len(es2) = Len(es) /\ Len(es) \in Nat
       /\ \A f \in 1 .. Len(es) : f # e => es2[f] = es[f]
  <2>1. es \in Seq(Entry) /\ Len(es) \in Nat  BY <1>7, PartFacts
  <2>2. b \in BlockOrNull  BY <1>6 DEF BlockOrNull
  <2>3. ASSUME NEW d \in 1 .. Len(es), es2 = WithValue(es, d, b)
        PROVE  /\ es2 \in Seq(Entry) /\ Len(es2) = Len(es) /\ es2[d].value = b /\ es2[d].key = es[d].key
               /\ \A f \in 1 .. Len(es) : f # d => es2[f] = es[f]
    BY <2>1, <2>2, <2>3, ValueChanges
  <2> QED  BY <1>5, <1>15, <2>1, <2>3
<1>17. SourcesOK'  BY <1>6, <1>9 DEF SourcesOK
<1>18. TablesOK'  BY <1>6, <1>9, <1>11, <1>14 DEF TablesOK
<1>19. FLInv' /\ \A c \in Blocks : Inside(c)' <=> Inside(c)
  BY <1>6, <1>9, StillKeeps DEF FLKept
<1>20. CallsOK'
  <2>1. fl[t].at = "none" /\ fl' = fl  BY <1>6, <1>9 DEF CallsOK, flVars
  <2> QED  BY <1>9, <1>10, <2>1, CallsAgain
<1>21. Placed'
  <2>1. Indexed(p, e, b)' /\ e \in Nat  BY <1>11, <1>15, <1>16 DEF Indexed
  <2>2. ASSUME NEW c \in Blocks, NEW q \in Producers, NEW f \in Nat, c # b \/ q # p \/ f # e
        PROVE  Indexed(q, f, c)' <=> Indexed(q, f, c)
    <3>1. CASE q # p  BY <1>11, <3>1 DEF Indexed
    <3>2. CASE q = p /\ f # e  BY <1>4, <1>11, <1>16, <3>2 DEF Indexed
    <3>3. CASE q = p /\ f = e
      BY <1>4, <1>11, <1>15, <1>16, <2>2, <3>3, BlocksAre DEF Indexed, Valued
    <3> QED  BY <3>1, <3>2, <3>3
  <2>3. pc'[t] # "link"  BY <1>10
  <2> QED  BY <1>3, <1>6, <1>7, <1>9, <1>10, <1>19, <2>1, <2>2, <2>3, LinkedPlaced
<1>22. PICK st2 : st2 = [st EXCEPT ![p] = "linked"]  BY Zenon
<1>23. DOMAIN st2 = Producers /\ st2[p] = "linked" /\ \A q \in Producers : q # p => st2[q] = st[q] /\ dn[q] = dn[q]
  BY <1>7, <1>9, <1>22 DEF ProducersOK
<1>24. OneChanges(p)  BY <1>6, <1>11 DEF OneChanges
<1>25. OthersHold(p)
  <2>1. ASSUME NEW q \in 1 .. created, q # p, NEW f \in 1 .. Len(entries[q]), Valued(entries[q], f)
        PROVE  elementsCompletelyDequeued'[entries[q][f].value]
                   = elementsCompletelyDequeued[entries[q][f].value]
    <3>1. IndexOK(entries[q], headers[q], tailIndex[q], st[q]) /\ q \in Producers
      BY <1>9, PartIs
    <3>2. entries[q][f].value \in Blocks  BY <2>1, <3>1, IndexFacts
    <3>3. entries[q][f].value # b  BY <1>12, <3>1 DEF Indexed
    <3> QED  BY <1>14, <3>2, <3>3
  <2> QED  BY <1>6, <2>1 DEF OthersHold
<1>26. RoleOK(pc'[t], loc'[t], prodOf[t], st2, created)
  <2>1. RoleOK(pc[t], loc[t], prodOf[t], st, created)  BY ThreadIs
  <2>2. "store" \notin Dequeuing  BY DEF Dequeuing, Readings
  <2>3. RoleOK("store", loc[t], prodOf[t], st2, created)
    BY <1>1, <1>7, <1>8, <1>23, <2>1, <2>2 DEF RoleOK
  <2> QED  BY <1>10, <2>3
<1>27. /\ WriterOK(pc'[t], loc'[t], headers'[loc'[t].p])
       /\ ReaderOK(pc'[t], loc'[t], entries'[loc'[t].p], headers'[loc'[t].p],
                   headIndex'[loc'[t].p], dn[loc'[t].p])
  BY <1>10 DEF WriterOK, ReaderOK, Unlinked, Readings
<1>28. \A u \in Threads : u # t => BothOK(pc'[t], loc'[t], pc[u], loc[u])
  BY <1>10 DEF BothOK, Readings
<1>29. \A u \in Threads : u # t /\ loc[u].p = p =>
           ReaderOK(pc[u], loc[u], entries'[p], headers'[p], headIndex'[p], dn[p])
  <2>1. headIndex[p] \in Nat  BY <1>7 DEF IInv, CountersOK
  <2>2. \A u \in Threads : loc[u].p = p => ReaderOK(pc[u], loc[u], es2, headers[p], headIndex[p], dn[p])
    BY <1>4, <1>7, <1>15, <2>1, OthersRead
  <2> QED  BY <1>6, <1>11, <2>2
<1>30. (st2[p] = st[p] \/ prodOf[t] = p) /\ (headers'[p] = headers[p] \/ prodOf[t] = p)
  BY <1>6, <1>7
<1>31. (\A j \in dn[p] : j < headIndex'[p]) /\ DOMAIN dn = Producers
  BY <1>6, <1>7, <1>9 DEF ProducersOK
<1>32. PartOK(p, entries'[p], headers'[p], tailIndex'[p], tailBlock'[p], st2[p], cell',
              elementsCompletelyDequeued', dn[p])
  BY <1>6, <1>11, <1>15, <1>23
<1>33. CreatedOK /\ OnlyMoves(t) /\ p \in 1 .. created /\ FLInv'
  BY <1>7, <1>9, <1>10, <1>19
<1>34. PICK dn2 : dn2 = dn  BY Zenon
<1>35. /\ DOMAIN st2 = Producers /\ DOMAIN dn2 = Producers
       /\ \A q \in Producers : q # p => st2[q] = st[q] /\ dn2[q] = dn[q]
       /\ \A j \in dn2[p] : j < headIndex'[p]
  BY <1>23, <1>31, <1>34
<1>36. PartOK(p, entries'[p], headers'[p], tailIndex'[p], tailBlock'[p], st2[p], cell',
              elementsCompletelyDequeued', dn2[p])
  BY <1>32, <1>34
<1>37. ReaderOK(pc'[t], loc'[t], entries'[loc'[t].p], headers'[loc'[t].p],
                headIndex'[loc'[t].p], dn2[loc'[t].p])
  BY <1>27, <1>34
<1>38. WriterOK(pc'[t], loc'[t], headers'[loc'[t].p])  BY <1>27
<1>39. \A u \in Threads : u # t /\ loc[u].p = p =>
           ReaderOK(pc[u], loc[u], entries'[p], headers'[p], headIndex'[p], dn2[p])
  BY <1>29, <1>34
<1>40. BInvOf(st2, dn2)'
  BY <1>17, <1>18, <1>20, <1>21, <1>24, <1>25, <1>26, <1>28, <1>30, <1>33,
       <1>35, <1>36, <1>37, <1>38, <1>39, OneKeeps
<1> QED  BY <1>34, <1>40

\* The thread that writes has left its call.
LEMMA WrittenRole ==
    ASSUME Shape, NEW st, NEW t \in Threads, RoleOK(pc[t], loc[t], prodOf[t], st, created),
           Return(t), NEW st2, prodOf[t] # 0 => st2[prodOf[t]] = "none"
    PROVE  /\ OnlyMoves(t) /\ pc'[t] \in Plain /\ pc'[t] # "adding"
           /\ RoleOK(pc'[t], loc'[t], prodOf[t], st2, created)
<1>1. OnlyMoves(t) /\ pc'[t] = "idle"  BY ReturnMoves
<1>2. loc'[t] = Blank  BY DEF Return, Shape
<1>3. "idle" \in Plain /\ "idle" \notin Enqueuing /\ "idle" \notin Dequeuing
  BY DEF Plain, Enqueuing, Dequeuing, Inserted, Unlinked, Readings
<1>4. StageAt("idle") = "none"  BY <1>3, PlainOK
<1>5. RoleOK("idle", Blank, prodOf[t], st2, created)
  BY <1>3, <1>4, BlankIs DEF RoleOK
<1> QED  BY <1>1, <1>2, <1>3, <1>5

\* What StoreElement does.
LEMMA StoreIs ==
    ASSUME NEW t \in Threads, StoreElement(t), NEW p, p = loc[t].p
    PROVE  /\ pc[t] \in Enqueuing /\ pc[t] \notin {"link", "freeList", "adding"} /\ Return(t)
           /\ pc[t] = "store" \/ (pc[t] = "enqueue" /\ ~Begins(tailIndex[p]))
           /\ cell' = [cell EXCEPT ![tailBlock[p]][tailIndex[p] % BlockSize] = <<p, tailIndex[p]>>]
           /\ tailIndex' = [tailIndex EXCEPT ![p] = @ + 1]
           /\ entries' = entries /\ headers' = headers /\ headIndex' = headIndex
           /\ elementsCompletelyDequeued' = elementsCompletelyDequeued
           /\ UNCHANGED <<created, inactive, prodOf, initialBlockPoolSize, poolIndex, heapFree, tailBlock>>
           /\ UNCHANGED flVars
<1>1. pc[t] = "store" \/ (pc[t] = "enqueue" /\ ~Begins(tailIndex[p]))
  BY DEF StoreElement, At, StartsBlock, Begins
<1>2. pc[t] \in Enqueuing /\ pc[t] \notin {"link", "freeList", "adding"}
  BY <1>1 DEF Enqueuing, Inserted, Unlinked
<1>3. /\ Return(t)
      /\ cell' = [cell EXCEPT ![tailBlock[p]][tailIndex[p] % BlockSize] = <<p, tailIndex[p]>>]
      /\ tailIndex' = [tailIndex EXCEPT ![p] = @ + 1]
      /\ entries' = entries /\ headers' = headers /\ headIndex' = headIndex
      /\ elementsCompletelyDequeued' = elementsCompletelyDequeued
      /\ UNCHANGED <<created, inactive, prodOf, initialBlockPoolSize, poolIndex, heapFree, tailBlock>>
      /\ UNCHANGED flVars
  BY DEF StoreElement, prodList, counters, indexVars, blockSrc
<1> QED  BY <1>1, <1>2, <1>3

\* The element is stored.
LEMMA StoreBInv ==
    ASSUME IInv, NEW st, NEW dn, BInvOf(st, dn), NEW t \in Threads, StoreElement(t)
    PROVE  \E st2 : BInvOf(st2, dn)'
<1>1. PICK p : p = loc[t].p  BY Zenon
<1>2. PICK i : i = tailIndex[p]  BY Zenon
<1>3. PICK b : b = tailBlock[p]  BY Zenon
<1>4. PICK es : es = entries[p]  BY Zenon
<1>5. PICK cl : cl = cell  BY Zenon
<1>6. PICK cl2 : cl2 = cell'  BY Zenon
<1>7. PICK r : r = i % BlockSize  BY Zenon
<1>8. /\ pc[t] \in Enqueuing /\ pc[t] \notin {"link", "freeList", "adding"} /\ Return(t)
      /\ pc[t] = "store" \/ (pc[t] = "enqueue" /\ ~Begins(i))
      /\ cl2 = [cl EXCEPT ![b][r] = <<p, i>>]
      /\ tailIndex' = [tailIndex EXCEPT ![p] = @ + 1]
      /\ entries' = entries /\ headers' = headers /\ headIndex' = headIndex
      /\ elementsCompletelyDequeued' = elementsCompletelyDequeued
      /\ UNCHANGED <<created, inactive, prodOf, initialBlockPoolSize, poolIndex, heapFree, tailBlock>>
      /\ UNCHANGED flVars
  BY <1>1, <1>2, <1>3, <1>5, <1>6, <1>7, StoreIs
<1>9. /\ prodOf[t] = p /\ p # 0 /\ p \in 1 .. created /\ p \in Producers /\ st[p] = StageAt(pc[t])
      /\ PartOK(p, es, headers[p], i, b, st[p], cl, elementsCompletelyDequeued, dn[p])
      /\ IndexOK(es, headers[p], i, st[p]) /\ Distinct(es)
  BY <1>1, <1>2, <1>3, <1>4, <1>5, <1>8, WritingIs
<1>10. st[p] = "linked" \/ (st[p] = "none" /\ ~Begins(i))
  BY <1>8, <1>9 DEF StageAt, Unlinked
<1>11. FLInv /\ SourcesOK /\ Placed /\ CallsOK /\ TablesOK /\ ProducersOK(st, dn) /\ CreatedOK /\ Shape
  BY BInvParts DEF IInv
<1>12. PICK e : EntryOf(es, e, i) /\ es[e].value = b  BY <1>9, <1>10, TailElement
<1>13. i \in Nat /\ r \in Elements /\ b \in Blocks /\ e \in Nat /\ Indexed(p, e, b)
  <2>1. i \in Nat  BY <1>9, PartFacts
  <2>2. r \in Elements  BY <1>7, <2>1, BaseIs DEF Elements
  <2>3. e \in 1 .. Len(es) /\ Valued(es, e)  BY <1>12 DEF EntryOf
  <2>4. b \in Blocks  BY <1>9, <1>12, <2>3, IndexFacts
  <2> QED  BY <1>4, <1>12, <2>1, <2>2, <2>3, <2>4 DEF Indexed
<1>14. DOMAIN cl = Blocks /\ \A c \in Blocks : DOMAIN cl[c] = Elements
  BY <1>5, <1>11 DEF TablesOK
<1>15. /\ WritesCell(cl, cl2, b, r, <<p, i>>)
       /\ DOMAIN cl2 = Blocks /\ \A c \in Blocks : DOMAIN cl2[c] = Elements
       /\ \A c \in Blocks : c # b => cl2[c] = cl[c]
  BY <1>8, <1>13, <1>14 DEF WritesCell
<1>16. PartOK(p, es, headers[p], i + 1, b, "none", cl2, elementsCompletelyDequeued, dn[p])
  <2>1. WritesCell(cl, cl2, b, i % BlockSize, <<p, i>>)  BY <1>7, <1>15
  <2> QED  BY <1>9, <1>10, <2>1, PartStores
<1>17. tailIndex'[p] = i + 1 /\ \A q \in Producers : q # p => tailIndex'[q] = tailIndex[q]
  <2>1. tailIndex \in [Producers -> Nat]  BY DEF IInv, CountersOK
  <2> QED  BY <1>2, <1>8, <1>9, <2>1
<1>18. PICK st2 : st2 = [st EXCEPT ![p] = "none"]  BY Zenon
<1>19. DOMAIN st2 = Producers /\ st2[p] = "none" /\ \A q \in Producers : q # p => st2[q] = st[q]
  BY <1>9, <1>11, <1>18 DEF ProducersOK
<1>20. /\ OnlyMoves(t) /\ pc'[t] \in Plain /\ RoleOK(pc'[t], loc'[t], prodOf[t], st2, created)
  <2>1. RoleOK(pc[t], loc[t], prodOf[t], st, created)  BY ThreadIs
  <2> QED  BY <1>8, <1>9, <1>11, <1>19, <2>1, WrittenRole
<1>21. SourcesOK'  BY <1>8, <1>11 DEF SourcesOK
<1>22. TablesOK'
  <2>1. DOMAIN cell' = Blocks /\ \A c \in Blocks : DOMAIN cell'[c] = Elements
    BY <1>6, <1>15
  <2> QED  BY <1>8, <1>11, <2>1 DEF TablesOK
<1>23. FLInv' /\ \A c \in Blocks : Inside(c)' <=> Inside(c)
  BY <1>8, <1>11, StillKeeps DEF FLKept
<1>24. CallsOK'
  <2>1. fl[t].at = "none" /\ fl' = fl  BY <1>8, <1>11 DEF CallsOK, flVars
  <2> QED  BY <1>11, <1>20, <2>1, CallsAgain
<1>25. Placed'
  <2>1. \A c \in Blocks, q \in Producers, f \in Nat : Indexed(q, f, c)' <=> Indexed(q, f, c)
    BY <1>8, SameIndexed
  <2>2. pc[t] # "link" /\ pc'[t] # "link"  BY <1>8, <1>20 DEF Plain
  <2> QED  BY <1>8, <1>11, <1>20, <1>23, <2>1, <2>2, CalmPlaced
<1>26. OneChanges(p)  BY <1>8, <1>17 DEF OneChanges
<1>27. OthersHold(p)
  <2>1. ASSUME NEW q \in 1 .. created, q # p, NEW f \in 1 .. Len(entries[q]), Valued(entries[q], f)
        PROVE  cell'[entries[q][f].value] = cell[entries[q][f].value]
    <3>1. IndexOK(entries[q], headers[q], tailIndex[q], st[q])  BY <1>11, PartIs
    <3>2. entries[q][f].value \in Blocks  BY <2>1, <3>1, IndexFacts
    <3>3. entries[q][f].value # b  BY <1>9, <1>11, <1>13, <2>1, ElsewhereNot
    <3> QED  BY <1>5, <1>6, <1>15, <3>2, <3>3
  <2> QED  BY <1>8, <2>1 DEF OthersHold
<1>28. PICK dn2 : dn2 = dn  BY Zenon
<1>29. /\ WriterOK(pc'[t], loc'[t], headers'[loc'[t].p])
       /\ ReaderOK(pc'[t], loc'[t], entries'[loc'[t].p], headers'[loc'[t].p],
                   headIndex'[loc'[t].p], dn2[loc'[t].p])
  BY <1>20, PlainOK
<1>30. \A u \in Threads : u # t => BothOK(pc'[t], loc'[t], pc[u], loc[u])
  BY <1>20, PlainOK
<1>31. \A u \in Threads : u # t /\ loc[u].p = p =>
           ReaderOK(pc[u], loc[u], entries'[p], headers'[p], headIndex'[p], dn2[p])
  BY <1>8, <1>28, ThreadIs
<1>32. (st2[p] = st[p] \/ prodOf[t] = p) /\ (headers'[p] = headers[p] \/ prodOf[t] = p)
  BY <1>9
<1>33. /\ DOMAIN st2 = Producers /\ DOMAIN dn2 = Producers
       /\ \A q \in Producers : q # p => st2[q] = st[q] /\ dn2[q] = dn[q]
       /\ \A j \in dn2[p] : j < headIndex'[p]
  BY <1>8, <1>9, <1>11, <1>19, <1>28 DEF ProducersOK
<1>34. PartOK(p, entries'[p], headers'[p], tailIndex'[p], tailBlock'[p], st2[p], cell',
              elementsCompletelyDequeued', dn2[p])
  BY <1>3, <1>4, <1>6, <1>8, <1>16, <1>17, <1>19, <1>28
<1>35. CreatedOK /\ OnlyMoves(t) /\ p \in 1 .. created /\ FLInv'
  BY <1>9, <1>11, <1>20, <1>23
<1>36. RoleOK(pc'[t], loc'[t], prodOf[t], st2, created)  BY <1>20
<1>37. BInvOf(st2, dn2)'
  BY <1>21, <1>22, <1>24, <1>25, <1>26, <1>27, <1>29, <1>30, <1>31, <1>32, <1>33, <1>34, <1>35,
       <1>36, OneKeeps
<1> QED  BY <1>28, <1>37

-----------------------------------------------------------------------------
(***************************************************************************)
(* The steps of enqueue() that insert an entry, and give it back.           *)
(***************************************************************************)
\* Two changes of the index.
LEMMA LeavesBoth ==
    ASSUME NEW es, NEW hs, NEW es1, NEW hs1, NEW es2, NEW hs2,
           Len(es) \in Nat, Len(es1) \in Nat, Len(es2) \in Nat,
           Len(hs) \in Nat, Len(hs1) \in Nat, Len(hs2) \in Nat,
           Leaves(es, hs, es1, hs1), Leaves(es1, hs1, es2, hs2),
           NothingNew(es, es1), NothingNew(es1, es2)
    PROVE  Leaves(es, hs, es2, hs2) /\ NothingNew(es, es2)
<1>1. ASSUME NEW e \in 1 .. Len(es)
      PROVE  /\ e \in 1 .. Len(es2)
             /\ Used(es, e) => Used(es2, e)
             /\ Valued(es, e) => es2[e] = es[e]
  <2>1. e \in 1 .. Len(es1) /\ (Used(es, e) => Used(es1, e)) /\ (Valued(es, e) => es1[e] = es[e])
    BY DEF Leaves
  <2>2. e \in 1 .. Len(es2) /\ (Used(es1, e) => Used(es2, e)) /\ (Valued(es1, e) => es2[e] = es1[e])
    BY <2>1 DEF Leaves
  <2>3. Valued(es, e) => Valued(es1, e)  BY <2>1 DEF Valued
  <2> QED  BY <2>1, <2>2, <2>3
<1>2. ASSUME NEW i \in 1 .. Len(hs)
      PROVE  i \in 1 .. Len(hs2) /\ hs2[i].index = hs[i].index
  <2>1. i \in 1 .. Len(hs1) /\ hs1[i].index = hs[i].index  BY DEF Leaves
  <2>2. i \in 1 .. Len(hs2) /\ hs2[i].index = hs1[i].index  BY <2>1 DEF Leaves
  <2> QED  BY <2>1, <2>2
<1>3. ASSUME NEW e \in 1 .. Len(es2), Valued(es2, e) PROVE e \in 1 .. Len(es) /\ es2[e] = es[e]
  <2>1. e \in 1 .. Len(es1) /\ es2[e] = es1[e]  BY <1>3 DEF NothingNew
  <2>2. Valued(es1, e)  BY <1>3, <2>1 DEF Valued
  <2>3. e \in 1 .. Len(es) /\ es1[e] = es[e]  BY <2>1, <2>2 DEF NothingNew
  <2> QED  BY <2>1, <2>3
<1>4. Len(es) <= Len(es2) /\ Len(hs) <= Len(hs2)  BY DEF Leaves
<1> QED  BY <1>1, <1>2, <1>3, <1>4 DEF Leaves, NothingNew

\* The entry behind the tail is inserted: what InsertBlockIndexEntry does to the
\* entries and the headers ...
Inserts(es, hs, tail, e, es2, hs2) ==
    /\ e = EntryBehind(hs[Len(hs)], Len(es))
    /\ es2 = WithKey(es, e, tail)
    /\ hs2 = WithLast(hs, Turned(hs[Len(hs)], Len(es)))

\* ... when it has made them larger, if that is necessary.
Grows(es, hs, es1, hs1) ==
    /\ es1 = Grown(es)
    /\ hs1 = Append(hs, Doubled(hs[Len(hs)], Len(es)))

\* The entry behind the tail is inserted.
LEMMA InsertsOld ==
    ASSUME NEW es, NEW hs, NEW tail, IndexOK(es, hs, tail, "none"), Begins(tail),
           NEW e, NEW es2, NEW hs2, Inserts(es, hs, tail, e, es2, hs2),
           ~Used(es, e) \/ ~Valued(es, e)
    PROVE  /\ IndexOK(es2, hs2, tail, "unlinked") /\ Leaves(es, hs, es2, hs2) /\ NothingNew(es, es2)
           /\ TailEntry(hs2[Len(hs2)]) = e
<1>1. IndexOK(es2, hs2, tail, "unlinked") /\ Len(hs2) = Len(hs) /\ e \in 1 .. Len(es) /\ ~Valued(es, e)
      /\ TailEntry(hs2[Len(hs2)]) = e
  BY IndexInserts DEF Inserts
<1>2. \A i \in 1 .. Len(hs) : hs2[i].index = hs[i].index
  BY IndexInserts DEF Inserts
<1>3. es \in Seq(Entry) /\ tail \in Nat /\ Len(es) \in Nat /\ hs \in Seq(Headers) /\ Len(hs) \in Nat
  BY DEF IndexOK
<1>4. /\ es2 \in Seq(Entry) /\ Len(es2) = Len(es) /\ es2[e].key = tail /\ es2[e].value = es[e].value
      /\ \A f \in 1 .. Len(es) : f # e => es2[f] = es[f]
  <2>0. es2 = WithKey(es, e, tail)  BY DEF Inserts
  <2>1. ASSUME NEW d \in 1 .. Len(es), es2 = WithKey(es, d, tail)
        PROVE  /\ es2 \in Seq(Entry) /\ Len(es2) = Len(es)
               /\ es2[d].key = tail /\ es2[d].value = es[d].value
               /\ \A f \in 1 .. Len(es) : f # d => es2[f] = es[f]
    BY <1>3, <2>1, KeyChanges
  <2> QED  BY <1>1, <2>0, <2>1
<1>5. tail # NoKey
  <2>1. PICK j \in Nat : tail = KeyOf(j)  BY <1>3, BeginsKey
  <2>2. j \in Int  OBVIOUS
  <2> QED  BY <2>1, <2>2, KeysAre
<1>6. ASSUME NEW f \in 1 .. Len(es)
      PROVE  /\ f \in 1 .. Len(es2)
             /\ Used(es, f) => Used(es2, f)
             /\ Valued(es, f) => es2[f] = es[f]
  <2>1. CASE f = e  BY <1>1, <1>4, <1>5, <2>1 DEF Used
  <2>2. CASE f # e  BY <1>4, <2>2 DEF Used
  <2> QED  BY <2>1, <2>2
<1>7. ASSUME NEW f \in 1 .. Len(es2), Valued(es2, f) PROVE f \in 1 .. Len(es) /\ es2[f] = es[f]
  <2>1. f # e  BY <1>1, <1>4, <1>7 DEF Valued
  <2> QED  BY <1>4, <2>1
<1>8. Len(es) <= Len(es2) /\ Len(hs) <= Len(hs2)  BY <1>1, <1>3, <1>4
<1>9. \A i \in 1 .. Len(hs) : i \in 1 .. Len(hs2) /\ hs2[i].index = hs[i].index
  BY <1>1, <1>2
<1> QED  BY <1>1, <1>6, <1>7, <1>8, <1>9 DEF Leaves, NothingNew

\* A new entry is inserted, in a table of twice the size.
LEMMA InsertsNew ==
    ASSUME NEW es, NEW hs, NEW tail, IndexOK(es, hs, tail, "none"), Begins(tail),
           Valued(es, EntryBehind(hs[Len(hs)], Len(es))),
           NEW es1, NEW hs1, Grows(es, hs, es1, hs1),
           NEW e, NEW es2, NEW hs2, Inserts(es1, hs1, tail, e, es2, hs2)
    PROVE  /\ IndexOK(es2, hs2, tail, "unlinked") /\ Leaves(es, hs, es2, hs2) /\ NothingNew(es, es2)
           /\ TailEntry(hs2[Len(hs2)]) = e
<1>1. /\ IndexOK(es1, hs1, tail, "none") /\ Len(hs1) = Len(hs) + 1 /\ Len(es1) = 2 * Len(es)
      /\ \A i \in 1 .. Len(hs) : hs1[i] = hs[i]
      /\ \A f \in 1 .. Len(es) : es1[f] = es[f]
      /\ \A f \in Len(es) + 1 .. Len(es1) : ~Used(es1, f) /\ ~Valued(es1, f)
      /\ EntryBehind(hs1[Len(hs1)], Len(es1)) \in Len(es) + 1 .. Len(es1)
  <2>1. IndexOK(es1, hs1, tail, "none")
    <3>1. IndexOK(Grown(es), Append(hs, Doubled(hs[Len(hs)], Len(es))), tail, "none")
      <4>1. PICK a : a = Grown(es)  BY Zenon
      <4>2. PICK g : g = Doubled(hs[Len(hs)], Len(es))  BY Zenon
      <4>3. PICK b : b = Append(hs, g)  BY Zenon
      <4>4. IndexOK(a, b, tail, "none")  BY <4>1, <4>2, <4>3, IndexGrows, ZenonT(60)
      <4> QED  BY <4>1, <4>2, <4>3, <4>4
    <3> QED  BY <3>1 DEF Grows
  <2>2. Len(hs1) = Len(hs) + 1 /\ Len(es1) = 2 * Len(es)  BY IndexGrows DEF Grows
  <2>3. \A i \in 1 .. Len(hs) : hs1[i] = hs[i]  BY IndexGrows DEF Grows
  <2>4. \A f \in 1 .. Len(es) : es1[f] = es[f]  BY IndexGrows DEF Grows
  <2>5. \A f \in Len(es) + 1 .. Len(es1) : ~Used(es1, f) /\ ~Valued(es1, f)
    BY IndexGrows DEF Grows
  <2>6. EntryBehind(hs1[Len(hs1)], Len(es1)) \in Len(es) + 1 .. Len(es1)
    BY IndexGrows DEF Grows
  <2> QED  BY <2>1, <2>2, <2>3, <2>4, <2>5, <2>6
<1>2. Len(es) \in Nat /\ Len(hs) \in Nat /\ Len(es1) \in Nat /\ Len(hs1) \in Nat
  <2>1. Len(es) \in Nat /\ Len(hs) \in Nat  BY DEF IndexOK
  <2> QED  BY <1>1, <2>1
<1>3. ~Used(es1, e)  BY <1>1 DEF Inserts
<1>4. /\ IndexOK(es2, hs2, tail, "unlinked") /\ Leaves(es1, hs1, es2, hs2) /\ NothingNew(es1, es2)
      /\ TailEntry(hs2[Len(hs2)]) = e
  <2>1. IndexOK(es1, hs1, tail, "none")  BY <1>1
  <2>2. IndexOK(es2, hs2, tail, "unlinked")  BY <1>3, <2>1, InsertsOld
  <2>3. Leaves(es1, hs1, es2, hs2)  BY <1>3, <2>1, InsertsOld
  <2>4. NothingNew(es1, es2)  BY <1>3, <2>1, InsertsOld
  <2>5. TailEntry(hs2[Len(hs2)]) = e  BY <1>3, <2>1, InsertsOld
  <2> QED  BY <2>2, <2>3, <2>4, <2>5
<1>5. Len(es2) \in Nat /\ Len(hs2) \in Nat  BY <1>4 DEF IndexOK
<1>6. Leaves(es, hs, es1, hs1)
  <2>1. \A f \in 1 .. Len(es) : f \in 1 .. Len(es1) /\ (Used(es, f) => Used(es1, f))
    BY <1>1, <1>2 DEF Used
  <2>2. Len(es) <= Len(es1) /\ Len(hs) <= Len(hs1) /\ \A i \in 1 .. Len(hs) : i \in 1 .. Len(hs1)
    BY <1>1, <1>2
  <2> QED  BY <1>1, <2>1, <2>2 DEF Leaves
<1>7. NothingNew(es, es1)
  <2>1. ASSUME NEW f \in 1 .. Len(es1), Valued(es1, f) PROVE f \in 1 .. Len(es) /\ es1[f] = es[f]
    <3>1. f \in 1 .. Len(es)  BY <1>1, <1>2, <2>1
    <3> QED  BY <1>1, <3>1
  <2> QED  BY <2>1 DEF NothingNew
<1> QED  BY <1>2, <1>4, <1>5, <1>6, <1>7, LeavesBoth

\* The entry at the tail, which has no block, is given back.
LEMMA Rewinds ==
    ASSUME NEW es, NEW hs, NEW tail, IndexOK(es, hs, tail, "unlinked"),
           NEW e, e = TailEntry(hs[Len(hs)]),
           NEW es2, es2 = WithValue(es, e, Null),
           NEW hs2, hs2 = WithLast(hs, TurnedBack(hs[Len(hs)], Len(es)))
    PROVE  IndexOK(es2, hs2, tail, "none") /\ Leaves(es, hs, es2, hs2) /\ NothingNew(es, es2)
<1>1. e \in 1 .. Len(es) /\ ~Valued(es, e)  BY IndexFacts DEF TailEntry
<1>2. IndexOK(es, hs2, tail, "none") /\ Len(hs2) = Len(hs)  BY IndexRewinds
<1>3. \A i \in 1 .. Len(hs) : hs2[i].index = hs[i].index  BY IndexRewinds
<1>4. es \in Seq(Entry) /\ Len(es) \in Nat /\ hs \in Seq(Headers) /\ Len(hs) \in Nat
  BY DEF IndexOK
<1>5. IndexOK(es2, hs2, tail, "none")
  <2>1. ASSUME NEW d \in 1 .. Len(es), es2 = WithValue(es, d, Null) PROVE IndexOK(es2, hs2, tail, "none")
    BY <1>2, <2>1, IndexClears
  <2> QED  BY <1>1, <2>1
<1>6. /\ es2 \in Seq(Entry) /\ Len(es2) = Len(es) /\ es2[e].value = Null /\ es2[e].key = es[e].key
      /\ \A f \in 1 .. Len(es) : f # e => es2[f] = es[f]
  <2>1. Null \in BlockOrNull  BY DEF BlockOrNull
  <2>2. ASSUME NEW d \in 1 .. Len(es), es2 = WithValue(es, d, Null)
        PROVE  /\ es2 \in Seq(Entry) /\ Len(es2) = Len(es) /\ es2[d].value = Null /\ es2[d].key = es[d].key
               /\ \A f \in 1 .. Len(es) : f # d => es2[f] = es[f]
    BY <1>4, <2>1, <2>2, ValueChanges
  <2> QED  BY <1>1, <2>2
<1>7. ASSUME NEW f \in 1 .. Len(es)
      PROVE  /\ f \in 1 .. Len(es2)
             /\ Used(es, f) => Used(es2, f)
             /\ Valued(es, f) => es2[f] = es[f]
  <2>1. CASE f = e  BY <1>1, <1>6, <2>1 DEF Used
  <2>2. CASE f # e  BY <1>6, <2>2 DEF Used
  <2> QED  BY <2>1, <2>2
<1>8. ASSUME NEW f \in 1 .. Len(es2), Valued(es2, f) PROVE f \in 1 .. Len(es) /\ es2[f] = es[f]
  <2>1. f # e  BY <1>6, <1>8 DEF Valued
  <2> QED  BY <1>6, <2>1
<1>9. Len(es) <= Len(es2) /\ Len(hs) <= Len(hs2) /\ \A i \in 1 .. Len(hs) : i \in 1 .. Len(hs2)
  BY <1>2, <1>4, <1>6
<1> QED  BY <1>3, <1>5, <1>7, <1>8, <1>9 DEF Leaves, NothingNew

\* What a step that changes the index of p leaves alone.
IndexChanges(p, es2, hs2) ==
    /\ entries'[p] = es2 /\ headers'[p] = hs2
    /\ DOMAIN entries' = Producers /\ DOMAIN headers' = Producers
    /\ \A q \in Producers : q # p => entries'[q] = entries[q] /\ headers'[q] = headers[q]
    /\ headIndex' = headIndex /\ UNCHANGED blockVars /\ UNCHANGED flVars
    /\ UNCHANGED <<created, inactive, prodOf, initialBlockPoolSize, poolIndex, heapFree>>
    /\ UNCHANGED <<tailIndex, tailBlock>>

\* A thread in enqueue() changes its index, and no block comes in or goes.
LEMMA IndexKeeps ==
    ASSUME IInv, NEW st, NEW dn, BInvOf(st, dn), NEW t \in Threads, pc[t] \in Enqueuing,
           pc[t] \notin {"link", "freeList"}, NEW p, p = loc[t].p,
           NEW es2, NEW hs2, IndexChanges(p, es2, hs2),
           NEW stage2, stage2 # "linked", IndexOK(es2, hs2, tailIndex[p], stage2),
           Leaves(entries[p], headers[p], es2, hs2), NothingNew(entries[p], es2),
           NEW st2, DOMAIN st2 = Producers, st2[p] = stage2,
           \A q \in Producers : q # p => st2[q] = st[q],
           OnlyMoves(t), pc'[t] \in Plain \union {"requisition"},
           RoleOK(pc'[t], loc'[t], prodOf[t], st2, created),
           WriterOK(pc'[t], loc'[t], headers'[loc'[t].p])
    PROVE  BInvOf(st2, dn)'
<1>1. /\ prodOf[t] = p /\ p # 0 /\ p \in 1 .. created /\ p \in Producers
      /\ PartOK(p, entries[p], headers[p], tailIndex[p], tailBlock[p], st[p], cell,
                elementsCompletelyDequeued, dn[p])
      /\ IndexOK(entries[p], headers[p], tailIndex[p], st[p])
  BY WritingIs
<1>2. FLInv /\ SourcesOK /\ Placed /\ CallsOK /\ TablesOK /\ ProducersOK(st, dn) /\ CreatedOK
  BY BInvParts DEF IInv
<1>3. PartOK(p, es2, hs2, tailIndex[p], tailBlock[p], stage2, cell, elementsCompletelyDequeued, dn[p])
  BY <1>1, PartIndexed
<1>4. SourcesOK'  BY <1>2 DEF SourcesOK, IndexChanges
<1>5. TablesOK'  BY <1>2 DEF TablesOK, IndexChanges, blockVars
<1>6. FLInv' /\ \A c \in Blocks : Inside(c)' <=> Inside(c)
  BY <1>2, StillKeeps DEF FLKept, IndexChanges
<1>7. pc[t] \notin {"freeList", "adding"} /\ pc[t] # "link" /\ pc'[t] # "link"
  BY DEF Enqueuing, Inserted, Unlinked, Plain
<1>8. CallsOK'
  <2>1. fl[t].at = "none" /\ fl' = fl
    BY <1>2, <1>7 DEF CallsOK, flVars, IndexChanges
  <2> QED  BY <1>2, <2>1, CallsAgain
<1>9. Placed'
  <2>1. ASSUME NEW c \in Blocks, NEW q \in Producers, NEW f \in Nat
        PROVE  Indexed(q, f, c)' <=> Indexed(q, f, c)
    <3>1. CASE q # p  BY <3>1 DEF Indexed, IndexChanges
    <3>2. CASE q = p
      <4>1. ASSUME f \in 1 .. Len(es2), es2[f].value = c
            PROVE  f \in 1 .. Len(entries[p]) /\ entries[p][f].value = c
        <5>1. Valued(es2, f)  BY <4>1, BlocksAre DEF Valued
        <5> QED  BY <4>1, <5>1 DEF NothingNew
      <4>2. ASSUME f \in 1 .. Len(entries[p]), entries[p][f].value = c
            PROVE  f \in 1 .. Len(es2) /\ es2[f].value = c
        <5>1. Valued(entries[p], f)  BY <4>2, BlocksAre DEF Valued
        <5> QED  BY <4>2, <5>1 DEF Leaves
      <4>3. entries'[p] = es2  BY DEF IndexChanges
      <4> QED  BY <3>2, <4>1, <4>2, <4>3 DEF Indexed
    <3> QED  BY <3>1, <3>2
  <2>2. UNCHANGED <<poolIndex, initialBlockPoolSize, heapFree>>  BY DEF IndexChanges
  <2> QED  BY <1>2, <1>6, <1>7, <2>1, <2>2, CalmPlaced
<1>10. OneChanges(p)  BY DEF OneChanges, IndexChanges
<1>11. OthersHold(p)  BY SameOthers DEF IndexChanges
<1>12. PICK dn2 : dn2 = dn  BY Zenon
<1>13. /\ ReaderOK(pc'[t], loc'[t], entries'[loc'[t].p], headers'[loc'[t].p],
                   headIndex'[loc'[t].p], dn2[loc'[t].p])
       /\ \A u \in Threads : u # t => BothOK(pc'[t], loc'[t], pc[u], loc[u])
  <2>1. CASE pc'[t] \in Plain  BY <2>1, PlainOK
  <2>2. CASE pc'[t] = "requisition"  BY <2>2 DEF ReaderOK, BothOK, Readings
  <2> QED  BY <2>1, <2>2
<1>14. \A u \in Threads : u # t /\ loc[u].p = p =>
           ReaderOK(pc[u], loc[u], entries'[p], headers'[p], headIndex'[p], dn2[p])
  <2>1. headIndex[p] \in Nat  BY <1>1 DEF IInv, CountersOK
  <2>2. \A u \in Threads : loc[u].p = p => ReaderOK(pc[u], loc[u], es2, hs2, headIndex[p], dn[p])
    BY <1>1, <2>1, OthersRead
  <2> QED  BY <1>12, <2>2 DEF IndexChanges
<1>15. (st2[p] = st[p] \/ prodOf[t] = p) /\ (headers'[p] = headers[p] \/ prodOf[t] = p)
  BY <1>1
<1>16. /\ DOMAIN st2 = Producers /\ DOMAIN dn2 = Producers
       /\ \A q \in Producers : q # p => st2[q] = st[q] /\ dn2[q] = dn[q]
       /\ \A j \in dn2[p] : j < headIndex'[p]
  BY <1>1, <1>2, <1>12 DEF ProducersOK, IndexChanges
<1>17. PartOK(p, entries'[p], headers'[p], tailIndex'[p], tailBlock'[p], st2[p], cell',
              elementsCompletelyDequeued', dn2[p])
  BY <1>3, <1>12 DEF IndexChanges, blockVars
<1>18. CreatedOK /\ p \in 1 .. created /\ FLInv'  BY <1>1, <1>2, <1>6
<1>19. BInvOf(st2, dn2)'
  BY <1>4, <1>5, <1>8, <1>9, <1>10, <1>11, <1>13, <1>14, <1>15, <1>16, <1>17, <1>18, OneKeeps, SMTT(60)
<1> QED  BY <1>12, <1>19

\* The size of the current table, of which there are as many entries.
LEMMA CurrentSize ==
    ASSUME NEW es, NEW hs, NEW tail, NEW stage, IndexOK(es, hs, tail, stage)
    PROVE  /\ Capacity(hs[Len(hs)]) = Len(es) /\ Len(es) \in Nat /\ Len(hs) \in Nat /\ Len(hs) > 0
           /\ HeaderOK(hs[Len(hs)], Len(es), Len(es)) /\ hs \in Seq(Headers) /\ es \in Seq(Entry)
<1>1. Len(es) \in Nat /\ HeaderOK(hs[Len(hs)], Len(es), Len(es))
  BY DEF IndexOK, CurrentOK
<1>2. Capacity(hs[Len(hs)]) = Len(es)  BY <1>1, CapacityIs, Zenon
<1> QED  BY <1>1, <1>2 DEF IndexOK

\* What RewindBlockIndexTail does.
LEMMA RewindIs ==
    ASSUME NEW t \in Threads, RewindBlockIndexTail(t), NEW p \in Producers, p = loc[t].p,
           DOMAIN entries = Producers, DOMAIN headers = Producers,
           NEW es, es = entries[p], NEW hs, hs = headers[p],
           Capacity(hs[Len(hs)]) = Len(es), NEW e, e = loc[t].ent
    PROVE  /\ IndexChanges(p, WithValue(es, e, Null), WithLast(hs, TurnedBack(hs[Len(hs)], Len(es))))
           /\ pc[t] = "rewind" /\ Return(t)
<1>1. /\ pc[t] = "rewind" /\ Return(t)
      /\ headers' = [headers EXCEPT ![p][Len(headers[p])].tail =
                       (@ - 1) % Capacity(headers[p][Len(headers[p])])]
      /\ entries' = [entries EXCEPT ![p][e].value = Null]
      /\ headIndex' = headIndex /\ UNCHANGED blockVars /\ UNCHANGED flVars
      /\ UNCHANGED <<created, inactive, prodOf, initialBlockPoolSize, poolIndex, heapFree>>
      /\ UNCHANGED <<tailIndex, tailBlock>>
  BY DEF RewindBlockIndexTail, At, Current, prodList, counters, blockSrc
<1>2. entries'[p] = WithValue(es, e, Null)  BY <1>1, SMTT(30) DEF WithValue
<1>3. headers'[p] = WithLast(hs, TurnedBack(hs[Len(hs)], Len(es)))
  <2>1. headers'[p] = [hs EXCEPT ![Len(hs)].tail = (@ - 1) % Capacity(hs[Len(hs)])]
    BY <1>1
  <2> QED  BY <2>1, Zenon DEF WithLast, TurnedBack
<1>4. /\ DOMAIN entries' = Producers /\ DOMAIN headers' = Producers
      /\ \A q \in Producers : q # p => entries'[q] = entries[q] /\ headers'[q] = headers[q]
  BY <1>1
<1> QED  BY <1>1, <1>2, <1>3, <1>4, Zenon DEF IndexChanges

\* The entry is given back, for want of memory.
LEMMA RewindBInv ==
    ASSUME IInv, NEW st, NEW dn, BInvOf(st, dn), NEW t \in Threads, RewindBlockIndexTail(t)
    PROVE  \E st2 : BInvOf(st2, dn)'
<1>1. PICK p : p = loc[t].p  BY Zenon
<1>2. PICK es : es = entries[p]  BY Zenon
<1>3. PICK hs : hs = headers[p]  BY Zenon
<1>4. PICK e : e = loc[t].ent  BY Zenon
<1>5. PICK es2 : es2 = WithValue(es, e, Null)  BY Zenon
<1>6. PICK hs2 : hs2 = WithLast(hs, TurnedBack(hs[Len(hs)], Len(es)))  BY Zenon
<1>7. pc[t] = "rewind" /\ pc[t] \in Enqueuing /\ pc[t] \in Unlinked /\ pc[t] \notin {"link", "freeList"}
  BY DEF RewindBlockIndexTail, At, Enqueuing, Inserted, Unlinked
<1>8. /\ prodOf[t] = p /\ p # 0 /\ p \in Producers /\ st[p] = StageAt(pc[t])
      /\ IndexOK(es, hs, tailIndex[p], st[p])
  BY <1>1, <1>2, <1>3, <1>7, WritingIs
<1>9. st[p] = "unlinked"  BY <1>7, <1>8 DEF StageAt
<1>10. e = TailEntry(hs[Len(hs)])  BY <1>1, <1>3, <1>4, <1>7, ThreadIs DEF WriterOK
<1>11. TablesOK /\ ProducersOK(st, dn) /\ Shape  BY BInvParts DEF IInv
<1>12. IndexChanges(p, es2, hs2) /\ Return(t)
  <2>1. Capacity(hs[Len(hs)]) = Len(es)  BY <1>8, CurrentSize
  <2>2. DOMAIN entries = Producers /\ DOMAIN headers = Producers
    BY <1>11 DEF TablesOK
  <2> QED  BY <1>1, <1>2, <1>3, <1>4, <1>5, <1>6, <1>8, <2>1, <2>2, RewindIs
<1>13. IndexOK(es2, hs2, tailIndex[p], "none") /\ Leaves(es, hs, es2, hs2) /\ NothingNew(es, es2)
  <2>1. IndexOK(es, hs, tailIndex[p], "unlinked")  BY <1>8, <1>9
  <2> QED  BY <1>5, <1>6, <1>10, <2>1, Rewinds
<1>14. PICK st2 : st2 = [st EXCEPT ![p] = "none"]  BY Zenon
<1>15. DOMAIN st2 = Producers /\ st2[p] = "none" /\ \A q \in Producers : q # p => st2[q] = st[q]
  BY <1>8, <1>11, <1>14 DEF ProducersOK
<1>16. /\ OnlyMoves(t) /\ pc'[t] \in Plain /\ RoleOK(pc'[t], loc'[t], prodOf[t], st2, created)
  <2>1. RoleOK(pc[t], loc[t], prodOf[t], st, created)  BY ThreadIs
  <2> QED  BY <1>8, <1>11, <1>12, <1>15, <2>1, WrittenRole
<1>17. WriterOK(pc'[t], loc'[t], headers'[loc'[t].p])  BY <1>16, PlainOK
<1>18. PICK stage2 : stage2 = "none"  BY Zenon
<1>19. stage2 # "linked" /\ st2[p] = stage2 /\ IndexOK(es2, hs2, tailIndex[p], stage2)
  BY <1>13, <1>15, <1>18
<1>20. Leaves(entries[p], headers[p], es2, hs2) /\ NothingNew(entries[p], es2)
  BY <1>2, <1>3, <1>13
<1>21. BInvOf(st2, dn)'
  BY <1>1, <1>7, <1>12, <1>15, <1>16, <1>17, <1>19, <1>20, IndexKeeps, Zenon
<1> QED  BY <1>21

\* The entries, the headers and the current header of the producer p of t.
InsertsAt(t, p, es, hs, h, n) ==
    p = loc[t].p /\ es = entries[p] /\ hs = headers[p] /\ h = hs[Len(hs)] /\ n = Len(es) /\ Capacity(h) = n
\* The index grows, and gets the new entry.
GrownTo(es, hs, h, n, tail, e, es2, hs2) ==
    LET g == Doubled(h, n)
        c == (g.tail + 1) % Capacity(g)
    IN  e = g.index[c] /\ es2 = WithKey(Grown(es), e, tail) /\ hs2 = Append(hs, [g EXCEPT !.tail = c])
\* It gets the entry behind its tail.
TurnedTo(es, hs, h, n, tail, e, es2, hs2) ==
    e = EntryBehind(h, n) /\ es2 = WithKey(es, e, tail) /\ hs2 = WithLast(hs, Turned(h, n))
\* What InsertBlockIndexEntry leaves alone, and what it does to the entries and
\* the headers of p.
LEMMA InsertIs ==
    ASSUME NEW t \in Threads, InsertBlockIndexEntry(t), NEW p \in Producers,
           DOMAIN entries = Producers, DOMAIN headers = Producers,
           NEW es, NEW hs, NEW h, NEW n \in Nat, InsertsAt(t, p, es, hs, h, n)
    PROVE  /\ pc[t] = "enqueue" /\ Begins(tailIndex[p]) /\ pc' = [pc EXCEPT ![t] = "requisition"]
           /\ \E e, es2, hs2 :
                 /\ loc' = [loc EXCEPT ![t].ent = e] /\ IndexChanges(p, es2, hs2)
                 /\ \/ /\ ~(~Used(es, EntryBehind(h, n)) \/ ~Valued(es, EntryBehind(h, n)))
                       /\ GrownTo(es, hs, h, n, tailIndex[p], e, es2, hs2)
                    \/ /\ ~Used(es, EntryBehind(h, n)) \/ ~Valued(es, EntryBehind(h, n))
                       /\ TurnedTo(es, hs, h, n, tailIndex[p], e, es2, hs2)
<1>p. p = loc[t].p
  BY DEF InsertsAt
<1>e. es = entries[p] /\ hs = headers[p]
  BY DEF InsertsAt
<1>h. h = hs[Len(hs)]
  BY DEF InsertsAt
<1>n. n = Len(es) /\ Capacity(h) = n
  BY Zenon DEF InsertsAt
<1>1. pc[t] = "enqueue" /\ Begins(tailIndex[p]) /\ pc' = [pc EXCEPT ![t] = "requisition"]
  BY <1>p, Zenon DEF InsertBlockIndexEntry, At, Goto, StartsBlock, Begins
<1>2. Usable(p, h) <=> ~Used(es, EntryBehind(h, n)) \/ ~Valued(es, EntryBehind(h, n))
  BY <1>e, <1>n DEF Usable, EntryBehind, Used, Valued
<1>3. headers[p][Current(p)] = h  BY <1>e, <1>h DEF Current
<1>4. GrownIndex(p) = Doubled(h, n)
  <2>1. GrownIndex(p) = [index |-> [i \in 0 .. 2 * n - 1 |->
                           IF i < n THEN h.index[(h.tail + 1 + i) % n] ELSE n + i - n + 1],
                         tail |-> n - 1]
    BY <1>3, <1>e, <1>n, Zenon DEF GrownIndex
  <2> QED  BY <2>1 DEF Doubled
<1>5. /\ headIndex' = headIndex /\ UNCHANGED blockVars /\ UNCHANGED flVars
      /\ UNCHANGED <<created, inactive, prodOf, initialBlockPoolSize, poolIndex, heapFree>>
      /\ UNCHANGED <<tailIndex, tailBlock>>
  BY Zenon DEF InsertBlockIndexEntry, prodList, counters, blockSrc
<1>6. ASSUME NEW es2, NEW hs2, entries' = [entries EXCEPT ![p] = es2], headers' = [headers EXCEPT ![p] = hs2]
      PROVE  IndexChanges(p, es2, hs2)
  BY <1>5, <1>6 DEF IndexChanges
<1>7. CASE Usable(p, h)
  <2>1. PICK c : c = (h.tail + 1) % n  BY Zenon
  <2>2. PICK e : e = h.index[c]  BY Zenon
  <2>3. /\ loc' = [loc EXCEPT ![t].ent = e]
        /\ entries' = [entries EXCEPT ![p] = [es EXCEPT ![e].key = tailIndex[p]]]
        /\ headers' = [headers EXCEPT ![p] = [@ EXCEPT ![Current(p)] = [h EXCEPT !.tail = c]]]
    BY <1>3, <1>7, <1>p, <1>e, <1>n, <2>1, <2>2, Zenon DEF InsertBlockIndexEntry
  <2>4. headers' = [headers EXCEPT ![p] = WithLast(hs, Turned(h, n))]
    BY <1>e, <2>1, <2>3 DEF WithLast, Turned, Current
  <2>5. entries' = [entries EXCEPT ![p] = WithKey(es, e, tailIndex[p])]
    BY <2>3 DEF WithKey
  <2>6. e = EntryBehind(h, n)  BY <2>1, <2>2 DEF EntryBehind
  <2>7. IndexChanges(p, WithKey(es, e, tailIndex[p]), WithLast(hs, Turned(h, n)))
    BY <1>6, <2>4, <2>5
  <2>8. TurnedTo(es, hs, h, n, tailIndex[p], e, WithKey(es, e, tailIndex[p]), WithLast(hs, Turned(h, n)))
    BY <2>6 DEF TurnedTo
  <2> QED  BY <1>1, <1>2, <1>7, <2>3, <2>7, <2>8
<1>8. CASE ~Usable(p, h)
  <2>0. PICK g : g = Doubled(h, n)  BY Zenon
  <2>1. PICK c : c = (g.tail + 1) % Capacity(g)  BY Zenon
  <2>2. PICK e : e = g.index[c]  BY Zenon
  <2>3. /\ loc' = [loc EXCEPT ![t].ent = e]
        /\ entries' = [entries EXCEPT ![p] =
                         [es \o [i \in 1 .. n |-> NewEntry] EXCEPT ![e].key = tailIndex[p]]]
        /\ headers' = [headers EXCEPT ![p] = Append(@, [g EXCEPT !.tail = c])]
    BY <1>3, <1>4, <1>8, <1>p, <1>e, <1>n, <2>0, <2>1, <2>2, Zenon DEF InsertBlockIndexEntry
  <2>4. headers' = [headers EXCEPT ![p] = Append(hs, [g EXCEPT !.tail = c])]
    BY <1>e, <2>3
  <2>5. entries' = [entries EXCEPT ![p] = WithKey(Grown(es), e, tailIndex[p])]
    BY <1>n, <2>3 DEF WithKey, Grown
  <2>7. IndexChanges(p, WithKey(Grown(es), e, tailIndex[p]), Append(hs, [g EXCEPT !.tail = c]))
    BY <1>6, <2>4, <2>5
  <2>8. GrownTo(es, hs, h, n, tailIndex[p], e, WithKey(Grown(es), e, tailIndex[p]),
                Append(hs, [g EXCEPT !.tail = c]))
    BY <2>0, <2>1, <2>2 DEF GrownTo
  <2> QED  BY <1>1, <1>2, <1>8, <2>3, <2>7, <2>8
<1> QED  BY <1>7, <1>8

\* A header is appended and turned at once.
LEMMA AppendTurned ==
    ASSUME NEW l \in Nat, NEW hs \in [1 .. l -> Headers], NEW g \in Headers, NEW x \in Headers
    PROVE  Append(hs, x) = WithLast(Append(hs, g), x)
<1>1. /\ Append(hs, g) \in Seq(Headers) /\ Len(Append(hs, g)) = l + 1
      /\ \A i \in 1 .. l : Append(hs, g)[i] = hs[i]
  BY NextHeader
<1>2. /\ Append(hs, x) \in Seq(Headers) /\ Len(Append(hs, x)) = l + 1 /\ Append(hs, x)[l + 1] = x
      /\ \A i \in 1 .. l : Append(hs, x)[i] = hs[i]
  BY NextHeader
<1>3. /\ WithLast(Append(hs, g), x) \in [1 .. l + 1 -> Headers]
      /\ WithLast(Append(hs, g), x)[l + 1] = x
      /\ \A i \in 1 .. l : WithLast(Append(hs, g), x)[i] = Append(hs, g)[i]
  <2>1. PICK a : a = Append(hs, g)  BY Zenon
  <2>2. PICK k \in Nat : k = l + 1  OBVIOUS
  <2>3. a \in [1 .. k -> Headers] /\ k > 0
    <3>1. a \in Seq(Headers) /\ Len(a) = k  BY <1>1, <2>1, <2>2
    <3>2. a \in [1 .. k -> Headers]  BY <3>1, SequenceIs
    <3>3. k > 0  BY <2>2
    <3> QED  BY <3>2, <3>3
  <2>4. /\ WithLast(a, x) \in [1 .. k -> Headers] /\ WithLast(a, x)[k] = x
        /\ \A i \in 1 .. k - 1 : WithLast(a, x)[i] = a[i]
    <3>1. WithLast(a, x) \in [1 .. k -> Headers]  BY <2>3, LastHeader
    <3>2. WithLast(a, x)[k] = x  BY <2>3, LastHeader
    <3>3. \A i \in 1 .. k - 1 : WithLast(a, x)[i] = a[i]  BY <2>3, LastHeader
    <3> QED  BY <3>1, <3>2, <3>3
  <2>5. k - 1 = l  BY <2>2
  <2> QED  BY <2>1, <2>2, <2>4, <2>5
<1>4. Append(hs, x) \in [1 .. l + 1 -> Headers]
  <2>1. l + 1 \in Nat  OBVIOUS
  <2> QED  BY <1>2, <2>1, SequenceIs
<1>5. \A i \in 1 .. l + 1 : i = l + 1 \/ i \in 1 .. l  OBVIOUS
<1>6. \A i \in 1 .. l + 1 : Append(hs, x)[i] = WithLast(Append(hs, g), x)[i]
  BY <1>1, <1>2, <1>3, <1>5
<1> QED  BY <1>3, <1>4, <1>6

\* The index grows, and the new entry is inserted.
LEMMA InsertGrown ==
    ASSUME NEW es, NEW hs, NEW tail, IndexOK(es, hs, tail, "none"), Begins(tail),
           Valued(es, EntryBehind(hs[Len(hs)], Len(es))), NEW e, NEW es2, NEW hs2,
           GrownTo(es, hs, hs[Len(hs)], Len(es), tail, e, es2, hs2)
    PROVE  \E es1, hs1 : Grows(es, hs, es1, hs1) /\ Inserts(es1, hs1, tail, e, es2, hs2)
<1>h. PICK h : h = hs[Len(hs)]
  OBVIOUS
<1>n. PICK n \in Nat : n = Len(es)
  BY CurrentSize
<1>g. PICK g : g = Doubled(h, n)
  OBVIOUS
<1>c. PICK c : c = (g.tail + 1) % Capacity(g)
  OBVIOUS
<1>e. e = g.index[c] /\ es2 = WithKey(Grown(es), e, tail) /\ hs2 = Append(hs, [g EXCEPT !.tail = c])
  BY <1>h, <1>n, <1>g, <1>c DEF GrownTo
<1>1. /\ HeaderOK(h, n, n) /\ hs \in Seq(Headers) /\ Len(hs) \in Nat /\ Len(hs) > 0 /\ es \in Seq(Entry)
  BY <1>h, <1>n, CurrentSize
<1>2. PICK k \in Nat : k = 2 * n  OBVIOUS
<1>3. HeaderOK(g, k, k)  BY <1>1, <1>2, <1>g, ViewDoubles
<1>4. Capacity(g) = k  BY <1>3, CapacityIs
<1>5. PICK es1 : es1 = Grown(es)  BY Zenon
<1>6. PICK hs1 : hs1 = Append(hs, g)  BY Zenon
<1>7. PICK l \in Nat : l = Len(hs) /\ hs \in [1 .. l -> Headers]  BY <1>1
<1>8. Len(es1) = k  BY <1>1, <1>2, <1>5, <1>n, GrownIs
<1>9. PICK x : x = Turned(g, k)  BY Zenon
<1>10. g \in Headers /\ x \in Headers
  <2>1. HeaderOK(x, k, k)  BY <1>3, <1>9, ViewTurns
  <2> QED  BY <1>3, <2>1, HeaderIs
<1>11. hs1[Len(hs1)] = g  BY <1>6, <1>7, <1>10, NextHeader
<1>12. x = [g EXCEPT !.tail = c]  BY <1>4, <1>9, <1>c DEF Turned
<1>13. hs2 = WithLast(hs1, x)
  <2>1. Append(hs, x) = WithLast(Append(hs, g), x)  BY <1>7, <1>10, AppendTurned
  <2> QED  BY <1>6, <1>12, <1>e, <2>1
<1>14. e = EntryBehind(g, k)  BY <1>4, <1>c, <1>e DEF EntryBehind
<1>15. Grows(es, hs, es1, hs1)  BY <1>5, <1>6, <1>h, <1>n, <1>g DEF Grows
<1>16. Inserts(es1, hs1, tail, e, es2, hs2)
  BY <1>5, <1>8, <1>9, <1>11, <1>13, <1>14, <1>e DEF Inserts
<1> QED  BY <1>15, <1>16

\* The entry behind the tail, or a new one, is inserted.
LEMMA InsertBInv ==
    ASSUME IInv, NEW st, NEW dn, BInvOf(st, dn), NEW t \in Threads, InsertBlockIndexEntry(t)
    PROVE  \E st2 : BInvOf(st2, dn)'
<1>1. PICK p : p = loc[t].p  BY Zenon
<1>2. PICK es : es = entries[p]  BY Zenon
<1>3. PICK hs : hs = headers[p]  BY Zenon
<1>4. PICK h : h = hs[Len(hs)]  BY Zenon
<1>5. PICK tail : tail = tailIndex[p]  BY Zenon
<1>6. pc[t] = "enqueue" /\ pc[t] \in Enqueuing /\ pc[t] \notin {"link", "freeList"}
  BY Zenon DEF InsertBlockIndexEntry, At, Enqueuing, Inserted, Unlinked
<1>7. /\ prodOf[t] = p /\ p # 0 /\ p \in 1 .. created /\ p \in Producers /\ st[p] = StageAt(pc[t])
      /\ IndexOK(es, hs, tail, st[p]) /\ DOMAIN loc[t] = LocalNames
  BY <1>1, <1>2, <1>3, <1>5, <1>6, WritingIs
<1>8. st[p] = "none"  BY <1>6, <1>7 DEF StageAt, Unlinked
<1>9. IndexOK(es, hs, tail, "none")  BY <1>7, <1>8
<1>10. PICK n \in Nat : n = Len(es)  BY <1>9, CurrentSize
<1>11. Capacity(h) = n  BY <1>4, <1>9, <1>10, CurrentSize
<1>12. TablesOK /\ ProducersOK(st, dn) /\ Shape  BY BInvParts DEF IInv
<1>13. DOMAIN entries = Producers /\ DOMAIN headers = Producers
  BY <1>12 DEF TablesOK
<1>a. InsertsAt(t, p, es, hs, h, n)
  BY <1>1, <1>2, <1>3, <1>4, <1>10, <1>11 DEF InsertsAt
<1>14. Begins(tail) /\ pc' = [pc EXCEPT ![t] = "requisition"]
  BY <1>5, <1>7, <1>13, <1>a, InsertIs
<1>15. PICK e, es2, hs2 :
          /\ loc' = [loc EXCEPT ![t].ent = e] /\ IndexChanges(p, es2, hs2)
          /\ \/ /\ ~(~Used(es, EntryBehind(h, n)) \/ ~Valued(es, EntryBehind(h, n)))
                /\ GrownTo(es, hs, h, n, tail, e, es2, hs2)
             \/ /\ ~Used(es, EntryBehind(h, n)) \/ ~Valued(es, EntryBehind(h, n))
                /\ TurnedTo(es, hs, h, n, tail, e, es2, hs2)
  BY <1>5, <1>7, <1>13, <1>a, InsertIs
<1>16. /\ IndexOK(es2, hs2, tail, "unlinked") /\ Leaves(es, hs, es2, hs2) /\ NothingNew(es, es2)
       /\ TailEntry(hs2[Len(hs2)]) = e
  <2>1. CASE ~(~Used(es, EntryBehind(h, n)) \/ ~Valued(es, EntryBehind(h, n)))
    <3>3. GrownTo(es, hs, hs[Len(hs)], Len(es), tail, e, es2, hs2)
      BY <1>4, <1>10, <1>15, <2>1
    <3>6. Valued(es, EntryBehind(hs[Len(hs)], Len(es)))  BY <1>4, <1>10, <2>1
    <3>5. PICK es1, hs1 : Grows(es, hs, es1, hs1) /\ Inserts(es1, hs1, tail, e, es2, hs2)
      BY <1>9, <1>14, <3>3, <3>6, InsertGrown
    <3> QED  BY <1>9, <1>14, <3>5, <3>6, InsertsNew
  <2>2. CASE ~Used(es, EntryBehind(h, n)) \/ ~Valued(es, EntryBehind(h, n))
    <3>1. e = EntryBehind(h, n) /\ es2 = WithKey(es, e, tail) /\ hs2 = WithLast(hs, Turned(h, n))
      BY <1>15, <2>2 DEF TurnedTo
    <3>2. Inserts(es, hs, tail, e, es2, hs2)  BY <1>4, <1>10, <3>1 DEF Inserts
    <3>3. ~Used(es, e) \/ ~Valued(es, e)  BY <2>2, <3>1
    <3> QED  BY <1>9, <1>14, <3>2, <3>3, InsertsOld
  <2> QED  BY <2>1, <2>2
<1>17. PICK st2 : st2 = [st EXCEPT ![p] = "unlinked"]  BY Zenon
<1>18. DOMAIN st2 = Producers /\ st2[p] = "unlinked" /\ \A q \in Producers : q # p => st2[q] = st[q]
  BY <1>7, <1>12, <1>17 DEF ProducersOK
<1>19. OnlyMoves(t) /\ pc'[t] = "requisition"
  BY <1>12, <1>14, <1>15 DEF OnlyMoves, Shape
<1>20. DOMAIN loc'[t] = LocalNames /\ loc'[t].p = p /\ loc'[t].ent = e
  BY <1>1, <1>7, <1>12, <1>15 DEF Shape, LocalNames
<1>21. RoleOK(pc'[t], loc'[t], prodOf[t], st2, created)
  <2>1. prodOf[t] \in 0 .. created  BY ThreadIs DEF RoleOK
  <2>2. "requisition" \notin Dequeuing /\ StageAt("requisition") = "unlinked"
    BY DEF Dequeuing, Readings, StageAt, Unlinked
  <2>3. RoleOK("requisition", loc'[t], prodOf[t], st2, created)
    BY <1>7, <1>18, <1>20, <2>1, <2>2, BlankIs DEF RoleOK
  <2> QED  BY <1>19, <2>3
<1>22. WriterOK(pc'[t], loc'[t], headers'[loc'[t].p])
  <2>1. headers'[p] = hs2  BY <1>15 DEF IndexChanges
  <2> QED  BY <1>16, <1>19, <1>20, <2>1 DEF WriterOK
<1>23. PICK stage2 : stage2 = "unlinked"  BY Zenon
<1>24. stage2 # "linked" /\ st2[p] = stage2 /\ IndexOK(es2, hs2, tailIndex[p], stage2)
  BY <1>5, <1>16, <1>18, <1>23
<1>25. Leaves(entries[p], headers[p], es2, hs2) /\ NothingNew(entries[p], es2)
  BY <1>2, <1>3, <1>16
<1>26. IndexChanges(p, es2, hs2) /\ pc'[t] \in Plain \union {"requisition"}
  BY <1>15, <1>19
<1>27. pc[t] \in Enqueuing /\ pc[t] \notin {"link", "freeList"}  BY <1>6
<1>28. DOMAIN st2 = Producers /\ \A q \in Producers : q # p => st2[q] = st[q]
  BY <1>18
<1>29. OnlyMoves(t)  BY <1>19
<1>30. BInvOf(st2, dn)'
  BY <1>1, <1>21, <1>22, <1>24, <1>25, <1>26, <1>27, <1>28, <1>29, IndexKeeps, Zenon
<1> QED  BY <1>30

-----------------------------------------------------------------------------
(***************************************************************************)
(* A call of enqueue() begins.                                              *)
(***************************************************************************)
\* Every step that begins one leaves this alone.
LEMMA BeginLeaves ==
    ASSUME Shape, NEW st, NEW dn, BInvOf(st, dn), NEW t \in Threads, BeginEnqueue(t)
    PROVE  /\ pc[t] = "idle" /\ pc' = [pc EXCEPT ![t] = "enqueue"] /\ OnlyMoves(t) /\ pc'[t] = "enqueue"
           /\ \E p \in Producers :
                /\ OwnProducer(t, p) \/ RecycleProducer(t, p) \/ AddProducer(t, p)
                /\ DOMAIN loc'[t] = LocalNames /\ loc'[t].p = p
           /\ UNCHANGED <<initialBlockPoolSize, poolIndex, heapFree, tailIndex, headIndex, tailBlock>>
           /\ UNCHANGED blockVars /\ UNCHANGED flVars
<1>1. /\ pc[t] = "idle" /\ pc' = [pc EXCEPT ![t] = "enqueue"]
      /\ UNCHANGED <<initialBlockPoolSize, poolIndex, heapFree, tailIndex, headIndex, tailBlock>>
      /\ UNCHANGED blockVars /\ UNCHANGED flVars
  BY DEF BeginEnqueue, At, Goto, counters, blockSrc
<1>2. PICK p \in Producers :
         /\ OwnProducer(t, p) \/ RecycleProducer(t, p) \/ AddProducer(t, p)
         /\ loc' = [loc EXCEPT ![t].p = p]
  BY DEF BeginEnqueue
<1>3. OnlyMoves(t) /\ pc'[t] = "enqueue"  BY <1>1, <1>2 DEF OnlyMoves, Shape
<1>4. DOMAIN loc'[t] = LocalNames /\ loc'[t].p = p
  <2>1. DOMAIN loc[t] = LocalNames  BY ThreadIs, BlankIs
  <2> QED  BY <1>2, <2>1 DEF Shape, LocalNames
<1> QED  BY <1>1, <1>2, <1>3, <1>4

\* The thread has its producer.
LEMMA OwnBInv ==
    ASSUME Shape, NEW st, NEW dn, BInvOf(st, dn), NEW t \in Threads, BeginEnqueue(t),
           NEW p \in Producers, OwnProducer(t, p), DOMAIN loc'[t] = LocalNames, loc'[t].p = p
    PROVE  BInvOf(st, dn)'
<1>1. /\ pc[t] = "idle" /\ OnlyMoves(t) /\ pc'[t] = "enqueue" /\ prodOf[t] = p /\ p # 0
      /\ CalmData /\ UNCHANGED <<poolIndex, heapFree>> /\ UNCHANGED flVars
  BY BeginLeaves DEF OwnProducer, Producers, CalmData, prodList, indexVars, blockVars
<1>2. pc[t] \notin Inserted /\ "enqueue" \in Plain
  BY <1>1 DEF Inserted, Unlinked, Plain
<1>3. RoleOK("enqueue", loc'[t], prodOf[t], st, created)
  <2>1. RoleOK(pc[t], loc[t], prodOf[t], st, created)  BY ThreadIs
  <2> QED  BY <1>1, <1>2, <2>1, RolePlain
<1>4. fl[t].at = "none"  BY <1>1, BInvParts DEF CallsOK
<1> QED  BY <1>1, <1>2, <1>3, <1>4, PlainKeeps

\* The thread takes a producer: p is no one's, and the others stay.
Joins(t, p) ==
    /\ created <= created' /\ p \in 1 .. created' /\ prodOf' = [prodOf EXCEPT ![t] = p]
    /\ \A q \in 1 .. created' : q = p \/ q \in 1 .. created
    /\ inactive' = inactive \ {p} /\ prodOf[t] = 0 /\ \A u \in Threads : prodOf[u] # p
    /\ DOMAIN entries' = Producers /\ DOMAIN headers' = Producers
    /\ \A q \in Producers : q # p \/ q <= created => entries'[q] = entries[q] /\ headers'[q] = headers[q]

\* It does.
LEMMA JoinBInv ==
    ASSUME Shape, CreatedOK, CreatedOK', NEW st, NEW dn, BInvOf(st, dn), NEW t \in Threads, BeginEnqueue(t),
           NEW p \in Producers, Joins(t, p), DOMAIN loc'[t] = LocalNames, loc'[t].p = p,
           st[p] = "none",
           PartOK(p, entries'[p], headers'[p], tailIndex[p], tailBlock[p], "none", cell,
                  elementsCompletelyDequeued, dn[p]),
           \A c \in Blocks, e \in Nat : Indexed(p, e, c)' <=> Indexed(p, e, c)
    PROVE  BInvOf(st, dn)'
<1>1. /\ pc[t] = "idle" /\ OnlyMoves(t) /\ pc'[t] = "enqueue"
      /\ UNCHANGED <<initialBlockPoolSize, poolIndex, heapFree, tailIndex, headIndex, tailBlock>>
      /\ UNCHANGED blockVars /\ UNCHANGED flVars
  BY BeginLeaves
<1>2. FLInv /\ SourcesOK /\ Placed /\ CallsOK /\ TablesOK /\ ProducersOK(st, dn) /\ PartsOK(st, dn)
  BY BInvParts
<1>3. /\ created \in Nat /\ created' \in Nat /\ created <= created' /\ 1 .. created' \subseteq Producers
      /\ p \in 1 .. created' /\ DOMAIN prodOf = Threads
      /\ prodOf'[t] = p /\ \A u \in Threads : u # t => prodOf'[u] = prodOf[u]
  BY <1>2 DEF CreatedOK, Joins, TablesOK
<1>4. SourcesOK'  BY <1>1, <1>2 DEF SourcesOK
<1>5. TablesOK'  BY <1>1, <1>2 DEF TablesOK, Joins, blockVars
<1>6. FLInv' /\ \A c \in Blocks : Inside(c)' <=> Inside(c)
  BY <1>1, <1>2, StillKeeps DEF FLKept
<1>7. CallsOK'
  <2>1. fl[t].at = "none" /\ fl' = fl  BY <1>1, <1>2 DEF CallsOK, flVars
  <2> QED  BY <1>1, <1>2, <2>1, CallsAgain
<1>8. Placed'
  <2>1. ASSUME NEW c \in Blocks, NEW q \in Producers, NEW f \in Nat
        PROVE  Indexed(q, f, c)' <=> Indexed(q, f, c)
    <3>1. CASE q # p  BY <3>1 DEF Indexed, Joins
    <3>2. CASE q = p  BY <3>2
    <3> QED  BY <3>1, <3>2
  <2> QED  BY <1>1, <1>2, <1>6, <2>1, CalmPlaced
<1>9. ProducersOK(st, dn)'
  <2>1. inactive' \in SUBSET (1 .. created')
    <3>1. ASSUME NEW q \in inactive' PROVE q \in 1 .. created'
      <4>1. q \in 1 .. created  BY <1>2, <3>1 DEF ProducersOK, Joins
      <4> QED  BY <1>3, <4>1
    <3> QED  BY <3>1
  <2>2. \A q \in inactive' : st[q] = "none" /\ \A u \in Threads : prodOf'[u] # q
    <3>1. ASSUME NEW q \in inactive' PROVE st[q] = "none" /\ \A u \in Threads : prodOf'[u] # q
      <4>1. q \in inactive /\ q # p  BY <3>1 DEF Joins
      <4> QED  BY <1>2, <1>3, <4>1, Zenon DEF ProducersOK
    <3> QED  BY <3>1
  <2>3. \A u, v \in Threads : prodOf'[u] = prodOf'[v] /\ prodOf'[u] # 0 => u = v
    <3>1. ASSUME NEW u \in Threads, NEW v \in Threads, prodOf'[u] = prodOf'[v], prodOf'[u] # 0
          PROVE  u = v
      <4>1. CASE u = t /\ v # t  BY <1>3, <3>1, <4>1 DEF Joins
      <4>2. CASE v = t /\ u # t  BY <1>3, <3>1, <4>2 DEF Joins
      <4>3. CASE u # t /\ v # t  BY <1>2, <1>3, <3>1, <4>3 DEF ProducersOK
      <4> QED  BY <4>1, <4>2, <4>3
    <3> QED  BY <3>1
  <2>4. \A q \in Producers : q > created' =>
            /\ entries'[q] = <<>> /\ headers'[q] = <<>> /\ tailIndex'[q] = 0 /\ headIndex'[q] = 0
            /\ st[q] = "none" /\ dn[q] = {}
    <3>1. ASSUME NEW q \in Producers, q > created'
          PROVE  /\ entries'[q] = <<>> /\ headers'[q] = <<>> /\ tailIndex'[q] = 0 /\ headIndex'[q] = 0
                 /\ st[q] = "none" /\ dn[q] = {}
      <4>1. q \in Nat /\ q > created /\ q # p  BY <1>3, <3>1 DEF Producers
      <4>2. entries'[q] = entries[q] /\ headers'[q] = headers[q]  BY <4>1 DEF Joins
      <4> QED  BY <1>1, <1>2, <4>1, <4>2 DEF ProducersOK
    <3> QED  BY <3>1
  <2>5. DOMAIN st = Producers /\ DOMAIN dn = Producers /\ \A q \in Producers : \A i \in dn[q] : i < headIndex'[q]
    BY <1>1, <1>2 DEF ProducersOK
  <2> QED  BY <2>1, <2>2, <2>3, <2>4, <2>5 DEF ProducersOK
<1>10. PartsOK(st, dn)'
  <2>1. ASSUME NEW q \in 1 .. created'
        PROVE  PartOK(q, entries'[q], headers'[q], tailIndex'[q], tailBlock'[q], st[q], cell',
                      elementsCompletelyDequeued', dn[q])
    <3>1. CASE q = p  BY <1>1, <3>1 DEF blockVars
    <3>2. CASE q # p
      <4>1. q \in 1 .. created /\ q \in Producers  BY <1>3, <3>2 DEF Joins
      <4>2. PartOK(q, entries[q], headers[q], tailIndex[q], tailBlock[q], st[q], cell,
                   elementsCompletelyDequeued, dn[q])
        BY <1>2, <4>1 DEF PartsOK
      <4>3. entries'[q] = entries[q] /\ headers'[q] = headers[q]
        BY <3>2, <4>1 DEF Joins
      <4> QED  BY <1>1, <4>2, <4>3 DEF blockVars
    <3> QED  BY <3>1, <3>2
  <2> QED  BY <2>1 DEF PartsOK
<1>11. \A u \in Threads : u # t => pc'[u] = pc[u] /\ loc'[u] = loc[u]
  BY <1>1 DEF OnlyMoves
<1>12. RolesOK(st)'
  <2>1. ASSUME NEW u \in Threads PROVE RoleOK(pc'[u], loc'[u], prodOf'[u], st, created')
    <3>1. CASE u = t
      <4>1. "enqueue" \notin Dequeuing /\ StageAt("enqueue") = "none"
        BY DEF Dequeuing, Readings, StageAt, Unlinked
      <4>2. RoleOK("enqueue", loc'[t], p, st, created')
        BY <1>3, <4>1, BlankIs DEF RoleOK
      <4> QED  BY <1>1, <1>3, <3>1, <4>2
    <3>2. CASE u # t
      <4>1. RoleOK(pc[u], loc[u], prodOf[u], st, created)  BY ThreadIs
      <4>2. \A x : (x \in 0 .. created => x \in 0 .. created') /\ (x \in 1 .. created => x \in 1 .. created')
        BY <1>3
      <4>3. RoleOK(pc[u], loc[u], prodOf[u], st, created')  BY <4>1, <4>2 DEF RoleOK
      <4> QED  BY <1>3, <1>11, <3>2, <4>3
    <3> QED  BY <3>1, <3>2
  <2> QED  BY <2>1 DEF RolesOK
<1>13. ASSUME NEW u \in Threads
       PROVE  /\ WriterOK(pc'[u], loc'[u], headers'[loc'[u].p])
              /\ ReaderOK(pc'[u], loc'[u], entries'[loc'[u].p], headers'[loc'[u].p],
                          headIndex'[loc'[u].p], dn[loc'[u].p])
  <2>1. CASE u = t
    <3>1. "enqueue" \in Plain  BY DEF Plain
    <3> QED  BY <1>1, <2>1, <3>1, PlainOK
  <2>2. CASE u # t /\ pc[u] \notin Enqueuing /\ pc[u] \notin Dequeuing
    BY <1>11, <2>2, AwayOK
  <2>3. CASE u # t /\ (pc[u] \in Enqueuing \/ pc[u] \in Dequeuing)
    <3>1. RoleOK(pc[u], loc[u], prodOf[u], st, created)  BY ThreadIs
    <3>2. loc[u].p \in 1 .. created  BY <1>3, <2>3, <3>1 DEF RoleOK
    <3>3. loc[u].p \in Producers /\ loc[u].p <= created  BY <1>3, <3>2
    <3>4. entries'[loc[u].p] = entries[loc[u].p] /\ headers'[loc[u].p] = headers[loc[u].p]
      BY <3>3 DEF Joins
    <3>5. /\ WriterOK(pc[u], loc[u], headers[loc[u].p])
          /\ ReaderOK(pc[u], loc[u], entries[loc[u].p], headers[loc[u].p],
                      headIndex[loc[u].p], dn[loc[u].p])
      BY ThreadIs
    <3> QED  BY <1>1, <1>11, <2>3, <3>4, <3>5
  <2> QED  BY <2>1, <2>2, <2>3
<1>14. WritersOK' /\ ReadersOK(dn)'  BY <1>13 DEF WritersOK, ReadersOK
<1>15. ReadersApart'
  <2>1. "enqueue" \in Plain  BY DEF Plain
  <2>2. \A u \in Threads : u # t => BothOK(pc'[t], loc'[t], pc[u], loc[u])
    BY <1>1, <2>1, PlainOK
  <2>3. ReadersApart  BY BInvParts
  <2> QED  BY <1>1, <2>2, <2>3, ApartAgain
<1> QED  BY <1>4, <1>5, <1>6, <1>7, <1>8, <1>9, <1>10, <1>12, <1>14, <1>15 DEF BInvOf

\* The thread gets the producer of a thread that has ended, with what is in it.
LEMMA RecycleBInv ==
    ASSUME Shape, CreatedOK, NEW st, NEW dn, BInvOf(st, dn), NEW t \in Threads, BeginEnqueue(t),
           NEW p \in Producers, RecycleProducer(t, p), DOMAIN loc'[t] = LocalNames, loc'[t].p = p
    PROVE  BInvOf(st, dn)'
<1>1. /\ prodOf[t] = 0 /\ p \in inactive /\ inactive' = inactive \ {p} /\ created' = created
      /\ prodOf' = [prodOf EXCEPT ![t] = p] /\ entries' = entries /\ headers' = headers
  BY DEF RecycleProducer, indexVars
<1>2. ProducersOK(st, dn) /\ PartsOK(st, dn) /\ TablesOK  BY BInvParts
<1>3. p \in 1 .. created /\ st[p] = "none" /\ \A u \in Threads : prodOf[u] # p
  BY <1>1, <1>2 DEF ProducersOK
<1>4. Joins(t, p)
  <2>1. created \in Nat  BY DEF CreatedOK
  <2> QED  BY <1>1, <1>2, <1>3, <2>1 DEF Joins, TablesOK
<1>5. CreatedOK'  BY <1>1 DEF CreatedOK
<1>6. PartOK(p, entries'[p], headers'[p], tailIndex[p], tailBlock[p], "none", cell,
             elementsCompletelyDequeued, dn[p])
  BY <1>1, <1>2, <1>3 DEF PartsOK
<1>7. \A c \in Blocks, e \in Nat : Indexed(p, e, c)' <=> Indexed(p, e, c)
  BY <1>1, SameIndexed
<1>8. st[p] = "none"  BY <1>3
<1> QED  BY <1>4, <1>5, <1>6, <1>7, <1>8, JoinBInv

\* The thread gets a new one.
LEMMA AddBInv ==
    ASSUME Shape, CreatedOK, NEW st, NEW dn, BInvOf(st, dn), NEW t \in Threads, BeginEnqueue(t),
           NEW p \in Producers, AddProducer(t, p), DOMAIN loc'[t] = LocalNames, loc'[t].p = p
    PROVE  BInvOf(st, dn)'
<1>1. /\ prodOf[t] = 0 /\ inactive = {} /\ inactive' = inactive /\ p = created + 1 /\ created' = created + 1
      /\ prodOf' = [prodOf EXCEPT ![t] = p]
      /\ entries' = [entries EXCEPT ![p] = NewEntries(IndexSize)]
      /\ headers' = [headers EXCEPT ![p] = <<FirstIndex>>]
  BY DEF AddProducer, NewEntries
<1>2. ProducersOK(st, dn) /\ TablesOK  BY BInvParts
<1>3. created \in Nat /\ MaxProducers \in Nat /\ 1 .. created \subseteq Producers
  BY ProducersAssumption DEF CreatedOK
<1>4. /\ entries[p] = <<>> /\ headers[p] = <<>> /\ tailIndex[p] = 0 /\ st[p] = "none" /\ dn[p] = {}
  <2>1. p > created  BY <1>1, <1>3
  <2> QED  BY <1>2, <2>1 DEF ProducersOK
<1>5. CreatedOK'  BY <1>1, <1>3 DEF CreatedOK, Producers
<1>6. \A u \in Threads : prodOf[u] # p
  <2>1. ASSUME NEW u \in Threads PROVE prodOf[u] # p
    <3>1. prodOf[u] \in 0 .. created  BY ThreadIs DEF RoleOK
    <3> QED  BY <1>1, <1>3, <3>1
  <2> QED  BY <2>1
<1>7. Joins(t, p)
  <2>1. /\ created <= created' /\ p \in 1 .. created'
        /\ \A q \in 1 .. created' : q = p \/ q \in 1 .. created
    BY <1>1, <1>3
  <2>2. DOMAIN entries' = Producers /\ DOMAIN headers' = Producers
    BY <1>1, <1>2 DEF TablesOK
  <2>3. \A q \in Producers : q # p \/ q <= created => entries'[q] = entries[q] /\ headers'[q] = headers[q]
    <3>1. ASSUME NEW q \in Producers, q # p \/ q <= created
          PROVE  entries'[q] = entries[q] /\ headers'[q] = headers[q]
      <4>1. q # p  BY <1>1, <1>3, <3>1
      <4> QED  BY <1>1, <1>2, <4>1 DEF TablesOK
    <3> QED  BY <3>1
  <2>4. inactive' = inactive \ {p}  BY <1>1
  <2> QED  BY <1>1, <1>6, <2>1, <2>2, <2>3, <2>4 DEF Joins
<1>8. entries'[p] = NewEntries(IndexSize) /\ headers'[p] = <<FirstIndex>>
  BY <1>1, <1>2 DEF TablesOK
<1>9. PartOK(p, entries'[p], headers'[p], tailIndex[p], tailBlock[p], "none", cell,
             elementsCompletelyDequeued, dn[p])
  <2>1. PartOK(p, NewEntries(IndexSize), <<FirstIndex>>, 0, tailBlock[p], "none", cell,
               elementsCompletelyDequeued, {})
    BY PartFirst
  <2> QED  BY <1>4, <1>8, <2>1
<1>10. \A c \in Blocks, e \in Nat : Indexed(p, e, c)' <=> Indexed(p, e, c)
  <2>1. ASSUME NEW c \in Blocks, NEW e \in Nat PROVE ~Indexed(p, e, c) /\ ~Indexed(p, e, c)'
    <3>1. ~Indexed(p, e, c)  BY <1>4 DEF Indexed
    <3>2. /\ IndexSize \in Nat /\ Len(NewEntries(IndexSize)) = IndexSize
          /\ \A f \in 1 .. IndexSize : NewEntries(IndexSize)[f] = NewEntry
      BY SizesAre, NewEntriesAre
    <3>3. NewEntry.value = Null /\ c # Null  BY BlocksAre DEF NewEntry
    <3>4. ~(e \in 1 .. Len(entries'[p]) /\ entries'[p][e].value = c)
      BY <1>8, <3>2, <3>3
    <3> QED  BY <3>1, <3>4 DEF Indexed
  <2> QED  BY <2>1
<1>11. st[p] = "none"  BY <1>4
<1> QED  BY <1>5, <1>7, <1>9, <1>10, <1>11, JoinBInv

\* A call of enqueue() begins.
LEMMA BeginEnqueueBInv ==
    ASSUME Shape, CreatedOK, NEW st, NEW dn, BInvOf(st, dn), NEW t \in Threads, BeginEnqueue(t)
    PROVE  BInvOf(st, dn)'
<1>1. PICK p \in Producers :
         /\ OwnProducer(t, p) \/ RecycleProducer(t, p) \/ AddProducer(t, p)
         /\ DOMAIN loc'[t] = LocalNames /\ loc'[t].p = p
  BY BeginLeaves
<1>2. CASE OwnProducer(t, p)  BY <1>1, <1>2, OwnBInv
<1>3. CASE RecycleProducer(t, p)  BY <1>1, <1>3, RecycleBInv
<1>4. CASE AddProducer(t, p)  BY <1>1, <1>4, AddBInv
<1> QED  BY <1>1, <1>2, <1>3, <1>4

-----------------------------------------------------------------------------
(***************************************************************************)
(* The invariant.                                                           *)
(***************************************************************************)
\* It holds at the start: every block is in the initial pool or on the heap.
LEMMA InitBInv == QInit => BInv
<1> SUFFICES ASSUME QInit PROVE BInv  OBVIOUS
<1>1. PICK st : st = [p \in Producers |-> "none"]  BY Zenon
<1>2. PICK dn : dn = [p \in Producers |-> {}]  BY Zenon
<1>3. FLInv /\ \A b \in Blocks : ~Inside(b)  BY InitFLInv DEF QInit
<1>4. PICK w \in Workloads : initialBlockPoolSize = w.pool /\ heapFree = {b \in Blocks : b > w.pool}
  BY DEF QInit
<1>5. w.pool \in 0 .. Cardinality(Blocks)  BY WorkloadsAssumption
<1>6. SourcesOK  BY <1>4, <1>5 DEF QInit, SourcesOK
<1>7. /\ \A t \in Threads : pc[t] = "idle" /\ loc[t] = Blank /\ prodOf[t] = 0
      /\ \A p \in Producers : /\ entries[p] = <<>> /\ headers[p] = <<>>
                              /\ tailIndex[p] = 0 /\ headIndex[p] = 0
      /\ created = 0 /\ inactive = {} /\ poolIndex = 0
  BY DEF QInit
<1>8. Placed
  <2>1. ASSUME NEW b \in Blocks PROVE PlacedAt(b)
    <3>1. b \in Nat /\ b > 0  BY BlocksAre
    <3>2. ~Inside(b) /\ (OnHeap(b) <=> b > initialBlockPoolSize) /\ (InPool(b) <=> b <= initialBlockPoolSize)
      BY <1>3, <1>4, <1>7, <3>1 DEF OnHeap, InPool
    <3>3. \A t \in Threads : ~Linking(t, b)  BY <1>7 DEF Linking
    <3>4. \A p \in Producers : \A e \in Nat : ~Indexed(p, e, b)  BY <1>7 DEF Indexed
    <3>5. initialBlockPoolSize \in Nat  BY <1>4, <1>5
    <3>6. CASE b <= initialBlockPoolSize
      <4>1. ~OnHeap(b) /\ InPool(b)  BY <3>1, <3>2, <3>5, <3>6
      <4> QED  BY <3>2, <3>3, <3>4, <4>1 DEF PlacedAt, Stands
    <3>7. CASE ~(b <= initialBlockPoolSize)
      <4>1. OnHeap(b) /\ ~InPool(b)  BY <3>1, <3>2, <3>5, <3>7
      <4> QED  BY <3>2, <3>3, <3>4, <4>1 DEF PlacedAt, Stands
    <3> QED  BY <3>6, <3>7
  <2> QED  BY <2>1 DEF Placed
<1>9. CallsOK  BY DEF QInit, CallsOK, FLInit, NoCall
<1>10. TablesOK  BY DEF QInit, TablesOK, Elements
<1>11. ProducersOK(st, dn)  BY <1>1, <1>2, <1>7 DEF ProducersOK
<1>12. PartsOK(st, dn)  BY <1>7 DEF PartsOK
<1>13. ASSUME NEW t \in Threads
       PROVE  /\ RoleOK(pc[t], loc[t], prodOf[t], st, created)
              /\ WriterOK(pc[t], loc[t], headers[loc[t].p])
              /\ ReaderOK(pc[t], loc[t], entries[loc[t].p], headers[loc[t].p],
                          headIndex[loc[t].p], dn[loc[t].p])
              /\ \A u \in Threads : BothOK(pc[t], loc[t], pc[u], loc[u])
  <2>1. "idle" \in Plain  BY DEF Plain
  <2>2. RoleOK("idle", Blank, 0, st, 0)
    BY BlankIs DEF RoleOK, Enqueuing, Inserted, Unlinked, Dequeuing, Readings
  <2> QED  BY <1>7, <2>1, <2>2, PlainOK
<1>14. RolesOK(st) /\ WritersOK /\ ReadersOK(dn) /\ ReadersApart
  BY <1>13 DEF RolesOK, WritersOK, ReadersOK, ReadersApart
<1> QED  BY <1>3, <1>6, <1>8, <1>9, <1>10, <1>11, <1>12, <1>14 DEF BInvOf, BInv

\* Every step keeps it.
LEMMA StepBInvOf ==
    ASSUME IInv, NEW st, NEW dn, BInvOf(st, dn), [QNext]_vars
    PROVE  \E st2, dn2 : BInvOf(st2, dn2)'
<1>1. Shape /\ CreatedOK  BY DEF IInv
<1>2. CASE UNCHANGED vars
  <2>1. StillData /\ UNCHANGED <<inactive, prodOf>>
    BY <1>2 DEF vars, threadVars, blockSrc, prodList, counters, indexVars, blockVars, StillData
  <2> QED  BY <2>1, StillBInv
<1>3. ASSUME NEW t \in Threads, Enqueue(t) PROVE \E st2, dn2 : BInvOf(st2, dn2)'
  <2>1. CASE BeginEnqueue(t)  BY <1>1, <2>1, BeginEnqueueBInv
  <2>2. CASE InsertBlockIndexEntry(t)  BY <2>2, InsertBInv
  <2>3. CASE IndexNotGrown(t)  BY <1>1, <2>3, LooksKeep DEF Looks
  <2>4. CASE FromInitialPool(t)  BY <2>4, InitialPoolBInv
  <2>5. CASE FromFreeList(t)  BY <2>5, FreeListBInv
  <2>6. CASE FromHeap(t)  BY <2>6, HeapBInv
  <2>7. CASE RewindBlockIndexTail(t)  BY <2>7, RewindBInv
  <2>8. CASE LinkBlock(t)  BY <2>8, LinkBInv
  <2>9. CASE StoreElement(t)  BY <2>9, StoreBInv
  <2> QED  BY <1>3, <2>1, <2>2, <2>3, <2>4, <2>5, <2>6, <2>7, <2>8, <2>9 DEF Enqueue
<1>4. ASSUME NEW t \in Threads, TryDequeue(t) PROVE \E st2, dn2 : BInvOf(st2, dn2)'
  <2>1. CASE Looks(t)  BY <1>1, <2>1, LooksKeep
  <2>2. CASE CheckTail(t) /\ loc[t].my - loc[t].over < tailIndex[loc[t].p]
    BY <2>2, TakeBInv
  <2>3. CASE Lookup(t)  BY <2>3, LookupBInv
  <2>4. CASE FindEntry(t)  BY <2>4, FindEntryBInv
  <2>5. CASE ReadElement(t)  BY <2>5, ReadElementBInv
  <2>6. CASE SetEmpty(t)  BY <2>6, SetEmptyBInv
  <2>7. CASE GiveUpBlock(t)  BY <2>7, GiveUpBInv
  <2> QED  BY <1>4, <2>1, <2>2, <2>3, <2>4, <2>5, <2>6, <2>7 DEF TryDequeue, Looks
<1>5. ASSUME NEW t \in Threads, ThreadExit(t) PROVE \E st2, dn2 : BInvOf(st2, dn2)'
  BY <1>1, <1>5, ExitBInv
<1>6. ASSUME NEW t \in Threads, FreeListStep(t) PROVE \E st2, dn2 : BInvOf(st2, dn2)'
  BY <1>1, <1>6, ListStepBInv
<1>7. CASE Finished  BY <1>2, <1>7 DEF Finished
<1> QED  BY <1>2, <1>3, <1>4, <1>5, <1>6, <1>7 DEF QNext

\* Both invariants, together.
LEMMA StepBInv == IInv /\ BInv /\ [QNext]_vars => BInv'
<1> SUFFICES ASSUME IInv, BInv, [QNext]_vars PROVE BInv'  OBVIOUS
<1>1. PICK st, dn : BInvOf(st, dn)  BY DEF BInv
<1>2. PICK st2, dn2 : BInvOf(st2, dn2)'  BY <1>1, StepBInvOf
<1> QED  BY <1>2, BInvFrom

\* The invariant always holds.
LEMMA AlwaysBInv == QSpec => []BInv
<1>1. QSpec => []IInv  BY InitIInv, StepIInv, PTL DEF QSpec
<1> QED  BY <1>1, InitBInv, StepBInv, PTL DEF QSpec

\* A thread that reads has its element's block where it holds.
LEMMA BInvReads == BInv => ReadsItsElement
<1> SUFFICES ASSUME BInv, NEW t \in Threads
             PROVE  /\ pc[t] = "read" => loc[t].blk # Null
                    /\ pc[t] = "empty" => loc[t].el = <<loc[t].p, loc[t].idx>>
  BY DEF ReadsItsElement
<1>1. PICK st, dn : BInvOf(st, dn)  BY DEF BInv
<1>2. ReaderOK(pc[t], loc[t], entries[loc[t].p], headers[loc[t].p], headIndex[loc[t].p], dn[loc[t].p])
  BY <1>1, ThreadIs
<1> QED  BY <1>2 DEF ReaderOK, EntryOf, Valued

\* For any threads, producers, blocks, sizes and calls: the block that dequeue()
\* finds for an index is the one the element was put in, and still has it when it
\* is read, however the producer has turned, grown and given back its index, and
\* reused its blocks, since the header was loaded.
THEOREM MoodyReadsItsElement == QSpec => []ReadsItsElement
  BY AlwaysBInv, BInvReads, PTL

-----------------------------------------------------------------------------
(***************************************************************************)
(* BlocksOwned                                                              *)
(***************************************************************************)
\* The entries that have the block.
LEMMA IndexPlacesAre ==
    ASSUME CreatedOK, NEW st, NEW dn, BInvOf(st, dn), NEW b
    PROVE  \A pe : pe \in IndexPlaces(b) <=>
                      \E p \in Producers : \E e \in Nat : pe = <<p, e>> /\ Indexed(p, e, b)
<1>1. ASSUME NEW p \in Producers PROVE DOMAIN entries[p] = 1 .. Len(entries[p]) /\ Len(entries[p]) \in Nat
  <2>1. created \in Nat /\ p \in Nat /\ p > 0  BY DEF CreatedOK, Producers
  <2>2. CASE p \in 1 .. created
    <3>1. entries[p] \in Seq(Entry)  BY <2>2, PartIs DEF IndexOK
    <3> QED  BY <3>1
  <2>3. CASE p > created
    <3>1. entries[p] = <<>>  BY <2>3, BInvParts DEF ProducersOK
    <3> QED  BY <3>1
  <2> QED  BY <2>1, <2>2, <2>3
<1>2. ASSUME NEW pe, pe \in IndexPlaces(b)
      PROVE  \E p \in Producers : \E e \in Nat : pe = <<p, e>> /\ Indexed(p, e, b)
  <2>1. pe \in UNION {{p} \X DOMAIN entries[p] : p \in Producers} /\ entries[pe[1]][pe[2]].value = b
    BY <1>2 DEF IndexPlaces
  <2>2. PICK p \in Producers : pe \in {p} \X DOMAIN entries[p]  BY <2>1
  <2>3. PICK e \in DOMAIN entries[p] : pe = <<p, e>>  BY <2>2
  <2>4. e \in Nat /\ Indexed(p, e, b)  BY <1>1, <2>1, <2>3 DEF Indexed
  <2> QED  BY <2>3, <2>4
<1>3. ASSUME NEW p \in Producers, NEW e \in Nat, Indexed(p, e, b) PROVE <<p, e>> \in IndexPlaces(b)
  <2>1. e \in DOMAIN entries[p] /\ entries[p][e].value = b
    BY <1>1, <1>3 DEF Indexed
  <2>2. <<p, e>> \in {p} \X DOMAIN entries[p]  BY <2>1
  <2>3. <<p, e>> \in UNION {{q} \X DOMAIN entries[q] : q \in Producers}  BY <2>2
  <2> QED  BY <2>1, <2>3 DEF IndexPlaces
<1> QED  BY <1>2, <1>3

\* A block is in one place.
LEMMA OwnedOnce ==
    ASSUME CreatedOK, NEW st, NEW dn, BInvOf(st, dn), NEW b \in Blocks
    PROVE  Count(InPool(b)) + Count(OnHeap(b)) + Count(InList(b)) + Cardinality(Holders(b))
               + Count(b \in flShould /\ Holders(b) = {}) + Cardinality(IndexPlaces(b)) = 1
<1>1. FLInv /\ Placed  BY BInvParts
<1>2. \A t : t \in Holders(b) <=> t \in Threads /\ (Linking(t, b) \/ Holds(fl[t], b))
  BY DEF Holders, Linking, Holds
<1>3. \A pe : pe \in IndexPlaces(b) <=>
          \E p \in Producers : \E e \in Nat : pe = <<p, e>> /\ Indexed(p, e, b)
  BY IndexPlacesAre
<1>4. Cardinality({}) = 0 /\ \A x : Cardinality({x}) = 1
  BY FS_EmptySet, FS_Singleton
<1>5. PICK x : Stands(b, x) /\ \A y : Stands(b, y) => y = x
  BY <1>1 DEF Placed, PlacedAt
<1>6. /\ \A t, u \in Threads : Holds(fl[t], b) /\ Holds(fl[u], b) => t = u
      /\ \A t \in Threads : Holds(fl[t], b) => ~InList(b)
      /\ b \in flShould => ~InList(b)
  BY <1>1, BlockIs
<1>7. Inside(b) <=> InList(b) \/ (\E t \in Threads : Holds(fl[t], b)) \/ b \in flShould
  BY DEF Inside
<1>8. /\ InPool(b) => x = <<"pool", 0, 0>>
      /\ OnHeap(b) => x = <<"heap", 0, 0>>
      /\ Inside(b) => x = <<"list", 0, 0>>
      /\ \A t \in Threads : Linking(t, b) => x = <<"link", t, 0>>
      /\ \A p \in Producers : \A e \in Nat : Indexed(p, e, b) => x = <<"index", p, e>>
  BY <1>5 DEF Stands
<1>9. CASE InPool(b)
  <2>1. ~OnHeap(b) /\ ~Inside(b) /\ (\A t \in Threads : ~Linking(t, b))
        /\ \A p \in Producers : \A e \in Nat : ~Indexed(p, e, b)
    BY <1>8, <1>9
  <2>2. Holders(b) = {} /\ IndexPlaces(b) = {} /\ ~InList(b) /\ b \notin flShould
    BY <1>2, <1>3, <1>7, <2>1
  <2> QED  BY <1>4, <1>9, <2>1, <2>2 DEF Count
<1>10. CASE OnHeap(b)
  <2>1. ~InPool(b) /\ ~Inside(b) /\ (\A t \in Threads : ~Linking(t, b))
        /\ \A p \in Producers : \A e \in Nat : ~Indexed(p, e, b)
    BY <1>8, <1>10
  <2>2. Holders(b) = {} /\ IndexPlaces(b) = {} /\ ~InList(b) /\ b \notin flShould
    BY <1>2, <1>3, <1>7, <2>1
  <2> QED  BY <1>4, <1>10, <2>1, <2>2 DEF Count
<1>11. CASE Inside(b)
  <2>1. ~InPool(b) /\ ~OnHeap(b) /\ (\A t \in Threads : ~Linking(t, b))
        /\ \A p \in Producers : \A e \in Nat : ~Indexed(p, e, b)
    BY <1>8, <1>11
  <2>2. IndexPlaces(b) = {}  BY <1>3, <2>1
  <2>3. CASE InList(b)
    <3>1. Holders(b) = {} /\ b \notin flShould  BY <1>2, <1>6, <2>1, <2>3
    <3> QED  BY <1>4, <2>1, <2>2, <2>3, <3>1 DEF Count
  <2>4. CASE ~InList(b) /\ \E t \in Threads : Holds(fl[t], b)
    <3>1. PICK t \in Threads : Holds(fl[t], b)  BY <2>4
    <3>2. Holders(b) = {t}  BY <1>2, <1>6, <2>1, <3>1
    <3>3. Cardinality(Holders(b)) = 1 /\ Holders(b) # {} /\ Cardinality(IndexPlaces(b)) = 0
      BY <1>4, <2>2, <3>2
    <3> QED  BY <2>1, <2>4, <3>3 DEF Count
  <2>5. CASE ~InList(b) /\ ~\E t \in Threads : Holds(fl[t], b)
    <3>1. b \in flShould /\ Holders(b) = {}  BY <1>2, <1>7, <1>11, <2>1, <2>5
    <3> QED  BY <1>4, <2>1, <2>2, <2>5, <3>1 DEF Count
  <2> QED  BY <2>3, <2>4, <2>5
<1>12. ASSUME NEW t \in Threads, Linking(t, b)
       PROVE  Count(InPool(b)) + Count(OnHeap(b)) + Count(InList(b)) + Cardinality(Holders(b))
                  + Count(b \in flShould /\ Holders(b) = {}) + Cardinality(IndexPlaces(b)) = 1
  <2>1. ~InPool(b) /\ ~OnHeap(b) /\ ~Inside(b) /\ (\A u \in Threads : Linking(u, b) => u = t)
        /\ \A p \in Producers : \A e \in Nat : ~Indexed(p, e, b)
    BY <1>8, <1>12
  <2>2. Holders(b) = {t} /\ IndexPlaces(b) = {} /\ ~InList(b) /\ b \notin flShould
    BY <1>2, <1>3, <1>7, <1>12, <2>1
  <2>3. Cardinality(Holders(b)) = 1 /\ Cardinality(IndexPlaces(b)) = 0
    BY <1>4, <2>2
  <2> QED  BY <2>1, <2>2, <2>3 DEF Count
<1>13. ASSUME NEW p \in Producers, NEW e \in Nat, Indexed(p, e, b)
       PROVE  Count(InPool(b)) + Count(OnHeap(b)) + Count(InList(b)) + Cardinality(Holders(b))
                  + Count(b \in flShould /\ Holders(b) = {}) + Cardinality(IndexPlaces(b)) = 1
  <2>1. ~InPool(b) /\ ~OnHeap(b) /\ ~Inside(b) /\ (\A t \in Threads : ~Linking(t, b))
    BY <1>8, <1>13
  <2>2. \A q \in Producers : \A f \in Nat : Indexed(q, f, b) => q = p /\ f = e
    BY <1>8, <1>13
  <2>3. IndexPlaces(b) = {<<p, e>>}  BY <1>3, <1>13, <2>2
  <2>4. Holders(b) = {} /\ ~InList(b) /\ b \notin flShould  BY <1>2, <1>7, <2>1
  <2>5. Cardinality(IndexPlaces(b)) = 1 /\ Cardinality(Holders(b)) = 0
    BY <1>4, <2>3, <2>4
  <2> QED  BY <2>1, <2>4, <2>5 DEF Count
<1> QED  BY <1>5, <1>9, <1>10, <1>11, <1>12, <1>13 DEF Stands

\* The blocks are owned where the invariants hold.
LEMMA BInvOwned == IInv /\ BInv => BlocksOwned
<1> SUFFICES ASSUME IInv, BInv PROVE BlocksOwned  OBVIOUS
<1>1. PICK st, dn : BInvOf(st, dn)  BY DEF BInv
<1>2. CreatedOK /\ FLInv  BY <1>1, BInvParts DEF IInv
<1>3. Linked.ends  BY <1>2, ListEnds DEF FLInv
<1>4. ASSUME NEW b \in Blocks
      PROVE  /\ Count(b > poolIndex /\ b <= initialBlockPoolSize) + Count(b \in heapFree)
                  + Count(b \in Linked.nodes) + Cardinality(Holders(b))
                  + Count(b \in flShould /\ Holders(b) = {}) + Cardinality(IndexPlaces(b)) = 1
             /\ flRefs[b] = References(b, b \in Linked.nodes)
  <2>1. Count(InPool(b)) + Count(OnHeap(b)) + Count(InList(b)) + Cardinality(Holders(b))
            + Count(b \in flShould /\ Holders(b) = {}) + Cardinality(IndexPlaces(b)) = 1
    BY <1>1, <1>2, OwnedOnce
  <2>2. flRefs[b] = References(b, InList(b))  BY <1>2 DEF FLInv, RefsOK
  <2> QED  BY <2>1, <2>2 DEF InPool, OnHeap, InList
<1> QED  BY <1>3, <1>4 DEF BlocksOwned

\* For any threads, producers, blocks, sizes and calls: a block is in the initial
\* pool, on the heap, on the free list, with one thread, left to the thread that
\* drops its last reference, or in one entry of one producer, and one time only;
\* the links of the free list end; and freeListRefs counts who looks at a node.
THEOREM MoodyBlocksOwned == QSpec => []BlocksOwned
<1>1. QSpec => []IInv  BY InitIInv, StepIInv, PTL DEF QSpec
<1> QED  BY <1>1, AlwaysBInv, BInvOwned, PTL
=============================================================================
