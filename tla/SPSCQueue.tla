------------------------------ MODULE SPSCQueue ------------------------------
(***************************************************************************)
(* CustomSPSCLockFreeQueue of Queue.hpp between one producer and one        *)
(* consumer, one step per access to shared memory.  The pointers are pool   *)
(* buffers, as in the pipeline: the producer takes a free buffer, the       *)
(* consumer gives it back when it is done with it, so that the number of    *)
(* buffers bounds what can be in flight.                                    *)
(*                                                                         *)
(* Memory is sequentially consistent here.  In the code the consumer loads  *)
(* tail_ relaxed; on a machine that reorders loads it may see a new tail_   *)
(* and an old cell, which this model does not show.                         *)
(***************************************************************************)
EXTENDS Naturals, Sequences, FiniteSets

CONSTANTS
    Slots,         \* the buffers of the pool
    NoSlot,        \* the null pointer
    Capacity,      \* capacity_; indices are taken modulo it (& mask_)
    MaxEnqueues    \* bound: calls of enqueue() that are explored

ASSUME SPSCSlots    == IsFiniteSet(Slots) /\ NoSlot \notin Slots
ASSUME SPSCCapacity == Capacity \in Nat \ {0}
ASSUME SPSCBound    == MaxEnqueues \in Nat

VARIABLES
    buffer, head, tail,
    free,          \* buffers in the pool
    ppc, item,     \* the producer in enqueue(), and its argument
    cpc, claimed,  \* the consumer in dequeue(), and its local variable head
    got,           \* the buffer the consumer works on
    enq, deq       \* history: pointers published and pointers returned

producerVars == <<ppc, item>>
consumerVars == <<cpc, claimed, got>>
qvars == <<buffer, head, tail, free, producerVars, consumerVars, enq, deq>>

QInit ==
    /\ buffer = [i \in 0 .. Capacity - 1 |-> NoSlot]
    /\ head = 0 /\ tail = 0
    /\ free = Slots
    /\ ppc = "idle" /\ item = NoSlot
    /\ cpc = "idle" /\ claimed = 0 /\ got = NoSlot
    /\ enq = <<>> /\ deq = <<>>

-----------------------------------------------------------------------------
\* The producer obtains a buffer and calls enqueue().
ProducerAllocate ==
    /\ ppc = "idle"
    /\ Len(enq) < MaxEnqueues
    /\ \E s \in free : item' = s /\ free' = free \ {s}
    /\ ppc' = "check"
    /\ UNCHANGED <<buffer, head, tail, consumerVars, enq, deq>>

\* if (next_tail - head_ > capacity_) return false; the caller forgets the buffer.
EnqueueCheck ==
    /\ ppc = "check"
    /\ IF tail + 1 - head > Capacity
       THEN ppc' = "idle" /\ item' = NoSlot
       ELSE ppc' = "write" /\ UNCHANGED item
    /\ UNCHANGED <<buffer, head, tail, free, consumerVars, enq, deq>>

\* Mutant: the cell of next_tail is written.
EnqueueWriteNext ==
    /\ ppc = "write"
    /\ buffer' = [buffer EXCEPT ![(tail + 1) % Capacity] = item]
    /\ ppc' = "publish"
    /\ UNCHANGED <<head, tail, free, item, consumerVars, enq, deq>>

\* buffer_[tail & mask_] = ptr
EnqueueWrite ==
    /\ ppc = "write"
    /\ buffer' = [buffer EXCEPT ![tail % Capacity] = item]
    /\ ppc' = "publish"
    /\ UNCHANGED <<head, tail, free, item, consumerVars, enq, deq>>

\* tail_.store(next_tail), return true
EnqueuePublish ==
    /\ ppc = "publish"
    /\ tail' = tail + 1
    /\ enq' = Append(enq, item)
    /\ ppc' = "idle" /\ item' = NoSlot
    /\ UNCHANGED <<buffer, head, free, consumerVars, deq>>

\* Mutant: the last pointer in the ring counts as none.
DequeueCheckLast ==
    /\ cpc = "idle"
    /\ \/ head + 1 < tail /\ cpc' = "claim"
       \/ head + 1 >= tail /\ UNCHANGED cpc
    /\ UNCHANGED <<buffer, head, tail, free, producerVars, claimed, got, enq, deq>>

\* if (head_ == tail_) return nullptr; the consumer then calls again.
DequeueCheck ==
    /\ cpc = "idle"
    /\ \/ head # tail /\ cpc' = "claim"
       \/ head = tail /\ UNCHANGED cpc
    /\ UNCHANGED <<buffer, head, tail, free, producerVars, claimed, got, enq, deq>>

\* Mutant: head_ is loaded and not advanced.
DequeueClaimKeeping ==
    /\ cpc = "claim"
    /\ claimed' = head
    /\ cpc' = "read"
    /\ UNCHANGED <<buffer, head, tail, free, producerVars, got, enq, deq>>

\* head = head_.fetch_add(1): the producer may use the cell from here on
DequeueClaim ==
    /\ cpc = "claim"
    /\ claimed' = head
    /\ head' = head + 1
    /\ cpc' = "read"
    /\ UNCHANGED <<buffer, tail, free, producerVars, got, enq, deq>>

\* Mutant: the cell is indexed with head_ as it is after the fetch_add.
DequeueReadNext ==
    /\ cpc = "read"
    /\ got' = buffer[head % Capacity]
    /\ deq' = Append(deq, got')
    /\ cpc' = "use"
    /\ UNCHANGED <<buffer, head, tail, free, producerVars, claimed, enq>>

\* return buffer_[head & mask_]
DequeueRead ==
    /\ cpc = "read"
    /\ got' = buffer[claimed % Capacity]
    /\ deq' = Append(deq, got')
    /\ cpc' = "use"
    /\ UNCHANGED <<buffer, head, tail, free, producerVars, claimed, enq>>

\* The consumer gives the buffer back to the pool.
ConsumerRelease ==
    /\ cpc = "use"
    /\ free' = free \union {got}
    /\ got' = NoSlot
    /\ cpc' = "idle"
    /\ UNCHANGED <<buffer, head, tail, producerVars, claimed, enq, deq>>

ProducerNext == ProducerAllocate \/ EnqueueCheck \/ EnqueueWrite \/ EnqueuePublish
ConsumerNext == DequeueCheck \/ DequeueClaim \/ DequeueRead \/ ConsumerRelease

QSpec == QInit /\ [][ProducerNext \/ ConsumerNext]_qvars

\* Both threads go on once they are inside an operation, and the consumer polls.
QFairSpec == QSpec /\ WF_qvars(ProducerNext) /\ WF_qvars(ConsumerNext)

-----------------------------------------------------------------------------
\* The pool is no larger than the ring.
PoolFits == Cardinality(Slots) <= Capacity

\* The k-th pointer that dequeue() returns is the k-th that was enqueued, also
\* when the producer reuses the cell between fetch_add and the read behind it,
\* provided that the pool is no larger than the ring.
DequeuedInOrder ==
    PoolFits =>
        /\ Len(deq) <= Len(enq)
        /\ \A k \in 1 .. Len(deq) : deq[k] = enq[k]

\* ... and then enqueue() never refuses a pointer, so that the pipeline's
\* unchecked calls lose none.
NeverRefused == PoolFits /\ ppc = "check" => tail + 1 - head <= Capacity

\* Every published pointer is returned to the consumer some time.
AllDelivered ==
    \A n \in 1 .. MaxEnqueues : (Len(enq) >= n) ~> (Len(deq) >= n)

\* What dequeue() has taken: from the fetch_add to the read it is still in its
\* cell, where the producer could write.
Taken == CASE cpc = "read" -> buffer[claimed % Capacity]
           [] cpc = "use"  -> got
           [] OTHER        -> NoSlot

\* The cells between head_ and tail_ are a bounded FIFO: enqueue() takes effect
\* at the store of tail_, dequeue() at the fetch_add on head_, and the pointer it
\* then reads and returns is the one that was oldest at that moment.
Fifo == INSTANCE BoundedFifo WITH
            Values <- Slots, Bound <- Capacity,
            Takers <- {"consumer"}, None <- NoSlot,
            items  <- [k \in 1 .. tail - head |-> buffer[(head + k - 1) % Capacity]],
            held   <- [c \in {"consumer"} |-> Taken]

ImplementsFifo == Fifo!FifoSpec

=============================================================================
