------------------------------ MODULE MPMCQueue ------------------------------
(***************************************************************************)
(* CustomMPMCLockFreeQueue of Queue.hpp, the queue of the asynchronous      *)
(* logger, one step per access to shared memory.  A cell's seq tells whose  *)
(* turn it is: pos for the producer of position pos, pos + 1 for its        *)
(* consumer, pos + Capacity for the next producer.  The pointers are pool   *)
(* buffers that a producer allocates and a consumer gives back, as log()    *)
(* and LoggerThread() do.                                                   *)
(***************************************************************************)
EXTENDS Integers, Sequences, FiniteSets

CONSTANTS
    Producers, Consumers,
    Slots, NoSlot,   \* the buffers of the pool, the null pointer
    Capacity,        \* capacity_; indices are taken modulo it (& mask_)
    MaxEnqueues      \* bound: positions that are claimed for enqueue()

ASSUME MPMCThreads  == Producers \intersect Consumers = {}
ASSUME MPMCSlots    == IsFiniteSet(Slots) /\ NoSlot \notin Slots
ASSUME MPMCCapacity == Capacity \in Nat \ {0}
ASSUME MPMCBound    == MaxEnqueues \in Nat

Threads == Producers \union Consumers

VARIABLES
    buffer,      \* cells: [seq, data]
    head, tail,
    free,        \* buffers in the pool
    pc,
    pos,         \* each thread's local pos
    item,        \* the argument of enqueue(), the value of dequeue()
    enq          \* history: enq[p + 1] is the pointer enqueued at position p

qvars == <<buffer, head, tail, free, pc, pos, item, enq>>

QInit ==
    /\ buffer = [i \in 0 .. Capacity - 1 |-> [seq |-> i, data |-> NoSlot]]
    /\ head = 0 /\ tail = 0
    /\ free = Slots
    /\ pc = [t \in Threads |-> "idle"]
    /\ pos = [t \in Threads |-> 0]
    /\ item = [t \in Threads |-> NoSlot]
    /\ enq = <<>>

-----------------------------------------------------------------------------
Go(t, from, to) == pc[t] = from /\ pc' = [pc EXCEPT ![t] = to]

\* The locals go out of scope.
Forget(t) == pos' = [pos EXCEPT ![t] = 0] /\ item' = [item EXCEPT ![t] = NoSlot]

Cell(t) == buffer[pos[t] % Capacity]

\* log() allocates a buffer and calls enqueue(), which loads tail_.
EnqueueLoad(p) ==
    /\ Go(p, "idle", "look")
    /\ Len(enq) < MaxEnqueues
    /\ \E s \in free : free' = free \ {s} /\ item' = [item EXCEPT ![p] = s]
    /\ pos' = [pos EXCEPT ![p] = tail]
    /\ UNCHANGED <<buffer, head, tail, enq>>

\* diff = seq - pos: 0 to the exchange, less: return false (the caller forgets
\* the buffer), more: load tail_ again.
EnqueueLook(p) ==
    \/ /\ Cell(p).seq = pos[p]
       /\ Go(p, "look", "claim")
       /\ UNCHANGED <<buffer, head, tail, free, pos, item, enq>>
    \/ /\ Cell(p).seq < pos[p]
       /\ Go(p, "look", "idle")
       /\ Forget(p)
       /\ UNCHANGED <<buffer, head, tail, free, enq>>
    \/ /\ Cell(p).seq > pos[p]
       /\ Go(p, "look", "look")
       /\ pos' = [pos EXCEPT ![p] = tail]
       /\ UNCHANGED <<buffer, head, tail, free, item, enq>>

\* Mutant: tail_ is stored without comparing it with pos.
EnqueueClaimBlind(p) ==
    /\ Go(p, "claim", "write")
    /\ tail' = pos[p] + 1
    /\ enq' = Append(enq, item[p])
    /\ UNCHANGED <<buffer, head, free, pos, item>>

\* tail_.compare_exchange_weak(pos, pos + 1), which may fail spuriously
EnqueueClaim(p) ==
    \/ /\ tail = pos[p]
       /\ Len(enq) < MaxEnqueues
       /\ Go(p, "claim", "write")
       /\ tail' = tail + 1
       /\ enq' = Append(enq, item[p])
       /\ UNCHANGED <<buffer, head, free, pos, item>>
    \/ /\ Go(p, "claim", "look")
       /\ pos' = [pos EXCEPT ![p] = tail]
       /\ UNCHANGED <<buffer, head, tail, free, item, enq>>

\* Mutant: the pointer is written to the cell behind the claimed one.
EnqueueWriteBehind(p) ==
    /\ Go(p, "write", "publish")
    /\ buffer' = [buffer EXCEPT ![(pos[p] + 1) % Capacity].data = item[p]]
    /\ UNCHANGED <<head, tail, free, pos, item, enq>>

\* cell->data = ptr
EnqueueWrite(p) ==
    /\ Go(p, "write", "publish")
    /\ buffer' = [buffer EXCEPT ![pos[p] % Capacity].data = item[p]]
    /\ UNCHANGED <<head, tail, free, pos, item, enq>>

\* cell->seq.store(pos + 1), return true
EnqueuePublish(p) ==
    /\ Go(p, "publish", "idle")
    /\ buffer' = [buffer EXCEPT ![pos[p] % Capacity].seq = pos[p] + 1]
    /\ Forget(p)
    /\ UNCHANGED <<head, tail, free, enq>>

DequeueLoad(c) ==
    /\ Go(c, "idle", "look")
    /\ pos' = [pos EXCEPT ![c] = head]
    /\ UNCHANGED <<buffer, head, tail, free, item, enq>>

\* diff = seq - (pos + 1): 0 to the exchange, less: return nullptr, more: again
DequeueLook(c) ==
    \/ /\ Cell(c).seq = pos[c] + 1
       /\ Go(c, "look", "claim")
       /\ UNCHANGED <<buffer, head, tail, free, pos, item, enq>>
    \/ /\ Cell(c).seq < pos[c] + 1
       /\ Go(c, "look", "idle")
       /\ Forget(c)
       /\ UNCHANGED <<buffer, head, tail, free, enq>>
    \/ /\ Cell(c).seq > pos[c] + 1
       /\ Go(c, "look", "look")
       /\ pos' = [pos EXCEPT ![c] = head]
       /\ UNCHANGED <<buffer, head, tail, free, item, enq>>

\* head_.compare_exchange_weak(pos, pos + 1)
DequeueClaim(c) ==
    \/ /\ head = pos[c]
       /\ Go(c, "claim", "read")
       /\ head' = head + 1
       /\ UNCHANGED <<buffer, tail, free, pos, item, enq>>
    \/ /\ Go(c, "claim", "look")
       /\ pos' = [pos EXCEPT ![c] = head]
       /\ UNCHANGED <<buffer, head, tail, free, item, enq>>

\* Mutant: the cell is indexed with head_ instead of the claimed position.
DequeueReadHead(c) ==
    /\ Go(c, "read", "release")
    /\ item' = [item EXCEPT ![c] = buffer[head % Capacity].data]
    /\ UNCHANGED <<buffer, head, tail, free, pos, enq>>

\* value = cell->data
DequeueRead(c) ==
    /\ Go(c, "read", "release")
    /\ item' = [item EXCEPT ![c] = Cell(c).data]
    /\ UNCHANGED <<buffer, head, tail, free, pos, enq>>

\* Mutant: the cell keeps its turn and no producer may use it again.
DequeueReleaseNever(c) ==
    /\ Go(c, "release", "use")
    /\ UNCHANGED <<buffer, head, tail, free, pos, item, enq>>

\* cell->seq.store(pos + capacity_), return value
DequeueRelease(c) ==
    /\ Go(c, "release", "use")
    /\ buffer' = [buffer EXCEPT ![pos[c] % Capacity].seq = pos[c] + Capacity]
    /\ UNCHANGED <<head, tail, free, pos, item, enq>>

\* The logger writes the message and gives its buffer back to the pool.
Deallocate(c) ==
    /\ Go(c, "use", "idle")
    /\ free' = free \union {item[c]}
    /\ Forget(c)
    /\ UNCHANGED <<buffer, head, tail, enq>>

ProducerStep(p) == EnqueueLoad(p) \/ EnqueueLook(p) \/ EnqueueClaim(p)
                       \/ EnqueueWrite(p) \/ EnqueuePublish(p)
ConsumerStep(c) == DequeueLoad(c) \/ DequeueLook(c) \/ DequeueClaim(c)
                       \/ DequeueRead(c) \/ DequeueRelease(c) \/ Deallocate(c)

QNext == \/ \E p \in Producers : ProducerStep(p)
         \/ \E c \in Consumers : ConsumerStep(c)

QSpec == QInit /\ [][QNext]_qvars

-----------------------------------------------------------------------------
QTypeOK ==
    /\ buffer \in [0 .. Capacity - 1 -> [seq : Nat, data : Slots \union {NoSlot}]]
    /\ head \in Nat /\ tail \in Nat
    /\ free \in SUBSET Slots
    /\ pc \in [Threads -> {"idle", "look", "claim", "write", "publish",
                           "read", "release", "use"}]
    /\ pos \in [Threads -> Nat]
    /\ item \in [Threads -> Slots \union {NoSlot}]
    /\ enq \in Seq(Slots)

Claimed(t) == pc[t] \in {"write", "publish", "read", "release"}

\* The threads that work on cells are alone there: no two of them, producers or
\* consumers, have positions that fall into the same cell.
CellsExclusive ==
    \A t, u \in Threads :
        t # u /\ Claimed(t) /\ Claimed(u) => pos[t] % Capacity # pos[u] % Capacity

\* A consumer gets the pointer that was enqueued at the position it claimed: not
\* one that is not yet written and not the next one in that cell.
ReadsItsPosition ==
    \A c \in Consumers : pc[c] \in {"release", "use"} => item[c] = enq[pos[c] + 1]

\* While no more buffers are out than the ring has cells, enqueue() returns false
\* only behind a consumer that was overtaken by another one inside dequeue(): with
\* the one consumer that the logger has, log() loses no message if its pool is no
\* larger than the ring.
RefusedOnlyBehindStalled ==
    \A p \in Producers :
        /\ Cardinality(Slots \ free) <= Capacity
        /\ pc[p] = "look" /\ Cell(p).seq < pos[p]
        => \E c \in Consumers : /\ pc[c] \in {"read", "release"}
                                /\ pos[c] = pos[p] - Capacity
                                /\ head > pos[c] + 1

\* What a consumer has taken: from the exchange to the read it is still in its
\* cell.
Taken(c) == CASE pc[c] = "read"              -> Cell(c).data
              [] pc[c] \in {"release", "use"} -> item[c]
              [] OTHER                       -> NoSlot

\* A queue of pointers: enqueue() takes effect when it moves tail_, dequeue() when
\* it moves head_, and returns what was oldest then, whatever is written to the
\* cells in between.
Fifo == INSTANCE BoundedFifo WITH
            Values <- Slots, Bound <- Capacity,
            Takers <- Consumers, None <- NoSlot,
            held   <- [c \in Consumers |-> Taken(c)],
            items  <- [k \in 1 .. tail - head |->
                         IF buffer[(head + k - 1) % Capacity].seq = head + k
                         THEN buffer[(head + k - 1) % Capacity].data
                         ELSE item[CHOOSE p \in Producers :
                                     Claimed(p) /\ pos[p] = head + k - 1]]

MPMCImplementsFifo == Fifo!FifoSpec

=============================================================================
