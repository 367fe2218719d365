--------------------------- MODULE SPSCQueueProofs ---------------------------
(***************************************************************************)
(* CustomSPSCLockFreeQueue for every capacity and every pool: the ring is a *)
(* bounded FIFO, and with a pool no larger than the ring nothing is refused *)
(* and every pointer comes out in its order, although dequeue() gives the   *)
(* cell back before it reads it.                                            *)
(***************************************************************************)
EXTENDS SPSCQueue, CommonLemmas, FiniteSetTheorems, SequenceTheorems, TLAPS

-----------------------------------------------------------------------------
\* The index of a position in buffer_.
CellOf(i) == i % Capacity

\* What the proofs need of it.
LEMMA CellOfType == \A i \in Nat : CellOf(i) \in 0 .. Capacity - 1
BY CellInRing, SPSCCapacity DEF CellOf

\* No two positions of a ring share a cell.
LEMMA CellOfDiffers ==
    \A i, j \in Nat : i < j /\ j - i < Capacity => CellOf(i) # CellOf(j)
BY CellsDiffer, SPSCCapacity, Zenon DEF CellOf

QTypeOK ==
    /\ buffer \in [0 .. Capacity - 1 -> Slots \union {NoSlot}]
    /\ head \in Nat /\ tail \in Nat /\ claimed \in Nat
    /\ free \in SUBSET Slots
    /\ ppc \in {"idle", "check", "write", "publish"}
    /\ cpc \in {"idle", "claim", "read", "use"}
    /\ IF ppc = "idle" THEN item = NoSlot ELSE item \in Slots
    /\ IF cpc = "use" THEN got \in Slots ELSE got = NoSlot
    /\ enq \in Seq(Slots) /\ deq \in Seq(Slots)

\* The ring, whatever the pool: the cells from head_ to tail_ hold the pointers
\* published there, and the producer writes outside them.
RingInv ==
    /\ head <= tail /\ tail - head <= Capacity
    /\ Len(enq) = tail
    /\ cpc = "claim" => head < tail
    /\ ppc \in {"write", "publish"} => tail - head < Capacity
    /\ ppc = "publish" => buffer[CellOf(tail)] = item
    /\ \A i \in head .. tail - 1 : buffer[CellOf(i)] = enq[i + 1]
    /\ cpc = "read" => /\ head = claimed + 1
                       /\ buffer[CellOf(claimed)] \in Slots
    /\ Len(deq) = IF cpc = "read" THEN claimed ELSE head

\* The buffers with the producer, in the ring and with the consumer are all
\* different and none of them is in the pool; the pointer behind a claimed cell
\* is still there, and those before it came out in their order.
PoolInv ==
    /\ cpc = "read" => buffer[CellOf(claimed)] = enq[claimed + 1]
    /\ \A k \in 1 .. Len(deq) : deq[k] = enq[k]
    /\ \A i \in Len(deq) + 1 .. tail : /\ enq[i] \notin free
                                       /\ enq[i] # item /\ enq[i] # got
    /\ \A i, j \in Len(deq) + 1 .. tail : enq[i] = enq[j] => i = j
    /\ ppc # "idle" => item \notin free /\ item # got
    /\ cpc = "use" => got \notin free

IInv == QTypeOK /\ RingInv /\ (PoolFits => PoolInv)

-----------------------------------------------------------------------------
\* While the producer holds a buffer, that buffer, those in the ring and the one
\* behind a claimed cell are different buffers of a pool that fits the ring.
LEMMA RoomForItem ==
    ASSUME IInv, PoolFits, ppc # "idle"
    PROVE  tail - Len(deq) < Capacity
<1> DEFINE n == tail - Len(deq)
           f == [k \in 1 .. n + 1 |-> IF k <= n THEN enq[Len(deq) + k] ELSE item]
<1>1. n \in Nat /\ Len(deq) \in Nat /\ Len(enq) = tail /\ tail \in Nat
    BY DEF IInv, QTypeOK, RingInv
<1>2. \A k \in 1 .. n : Len(deq) + k \in Len(deq) + 1 .. tail
    BY <1>1
<1>3. item \in Slots /\ enq \in Seq(Slots)
    BY DEF IInv, QTypeOK
<1>4. \A k \in 1 .. n : enq[Len(deq) + k] \in Slots /\ enq[Len(deq) + k] # item
    BY <1>1, <1>2, <1>3, ElementOfSeq DEF IInv, PoolInv
<1>5. \A k, l \in 1 .. n : enq[Len(deq) + k] = enq[Len(deq) + l] => k = l
    BY <1>1, <1>2 DEF IInv, PoolInv
<1> HIDE DEF n
<1>6. f \in Injection(1 .. n + 1, Slots)
    <2>1. f \in [1 .. n + 1 -> Slots]
        <3>1. \A k \in 1 .. n + 1 :
                  (IF k <= n THEN enq[Len(deq) + k] ELSE item) \in Slots
            BY <1>1, <1>3, <1>4
        <3> QED  BY <3>1
    <2>2. ASSUME NEW a \in 1 .. n + 1, NEW b \in 1 .. n + 1, f[a] = f[b]
          PROVE  a = b
        <3>1. CASE a <= n /\ b <= n  BY <1>1, <1>5, <2>2, <3>1
        <3>2. CASE ~ (a <= n /\ b <= n)  BY <1>1, <1>4, <2>2, <3>2
        <3> QED  BY <3>1, <3>2
    <2> QED  BY <2>1, <2>2 DEF Injection, IsInjective
<1>7. Cardinality(1 .. n + 1) <= Cardinality(Slots)
    BY <1>6, FS_Injection, SPSCSlots
<1>8. Cardinality(1 .. n + 1) = n + 1
    BY <1>1, FS_Interval
<1>9. Cardinality(Slots) \in Nat
    BY SPSCSlots, FS_CardinalityType
<1>10. n < Capacity
    BY <1>1, <1>7, <1>8, <1>9, SPSCCapacity DEF PoolFits
<1> QED  BY <1>10 DEF n

\* Nothing is in the ring, and every buffer is in the pool.
LEMMA InitIInv == QInit => IInv
<1> SUFFICES ASSUME QInit PROVE IInv  OBVIOUS
<1>1. QTypeOK
    BY SPSCCapacity DEF QInit, QTypeOK
<1>2. RingInv
    BY SPSCCapacity DEF QInit, RingInv
<1>3. PoolInv
    BY SPSCSlots DEF QInit, PoolInv
<1> QED  BY <1>1, <1>2, <1>3 DEF IInv

\* Steps that leave ring and histories alone: the caller of enqueue() takes a
\* buffer from the pool ...
LEMMA AllocateIInv == IInv /\ ProducerAllocate => IInv'
<1> SUFFICES ASSUME IInv, ProducerAllocate PROVE IInv'  OBVIOUS
<1> USE DEF IInv, ProducerAllocate, consumerVars
<1>1. PICK s \in free : item' = s /\ free' = free \ {s}  OBVIOUS
<1>2. QTypeOK'
    BY <1>1, SPSCSlots DEF QTypeOK
<1>3. RingInv'
    BY DEF RingInv
<1>4. PoolFits => PoolInv'
    BY <1>1, SPSCSlots DEF QTypeOK, PoolInv, RingInv
<1> QED  BY <1>2, <1>3, <1>4 DEF PoolFits

\* ... and enqueue() looks at head_, which only moves away from the producer.
LEMMA EnqueueCheckIInv == IInv /\ EnqueueCheck => IInv'
<1> SUFFICES ASSUME IInv, EnqueueCheck PROVE IInv'  OBVIOUS
<1> USE DEF IInv, EnqueueCheck, consumerVars
<1>1. QTypeOK'
    BY DEF QTypeOK
<1>2. RingInv'
    BY SPSCCapacity DEF RingInv, QTypeOK
<1>3. PoolFits => PoolInv'
    <2> SUFFICES ASSUME PoolFits PROVE PoolInv'  OBVIOUS
    <2>1. tail - Len(deq) < Capacity
        BY RoomForItem
    <2>2. Len(deq) \in Nat /\ Len(deq) <= head /\ head \in Nat /\ tail \in Nat
        BY DEF RingInv, QTypeOK
    <2>3. ~ (tail + 1 - head > Capacity)
        BY <2>1, <2>2, SPSCCapacity
    <2> QED  BY <2>3 DEF PoolInv
<1> QED  BY <1>1, <1>2, <1>3 DEF PoolFits

\* The producer writes a cell outside the ring, and with a pool that fits not
\* the claimed one either.
LEMMA EnqueueWriteIInv == IInv /\ EnqueueWrite => IInv'
<1> SUFFICES ASSUME IInv, EnqueueWrite PROVE IInv'  OBVIOUS
<1> USE DEF IInv, EnqueueWrite, consumerVars
<1>1. CellOf(tail) \in 0 .. Capacity - 1
    BY CellOfType DEF QTypeOK
<1>7. buffer' = [buffer EXCEPT ![CellOf(tail)] = item]
    BY DEF CellOf
<1>2. QTypeOK'
    BY <1>1, <1>7 DEF QTypeOK
<1>3. \A i \in Nat : i < tail /\ tail - i < Capacity
                         => buffer'[CellOf(i)] = buffer[CellOf(i)]
    BY <1>1, <1>7, CellOfDiffers, CellOfType DEF QTypeOK
<1>4. buffer'[CellOf(tail)] = item
    BY <1>1, <1>7 DEF QTypeOK
<1>5. RingInv'
    <2>1. \A i \in head .. tail - 1 : buffer'[CellOf(i)] = enq[i + 1]
        BY <1>3, SPSCCapacity DEF RingInv, QTypeOK
    <2>2. cpc = "read" => buffer'[CellOf(claimed)] \in Slots
        <3>1. CellOf(claimed) \in 0 .. Capacity - 1
            BY CellOfType DEF QTypeOK
        <3> QED  BY <3>1, <1>1, <1>7 DEF RingInv, QTypeOK
    <2> QED  BY <2>1, <2>2, <1>4 DEF RingInv
<1>6. PoolFits => PoolInv'
    <2> SUFFICES ASSUME PoolFits PROVE PoolInv'  OBVIOUS
    <2>1. cpc = "read" => buffer'[CellOf(claimed)] = enq[claimed + 1]
        <3> SUFFICES ASSUME cpc = "read"
                     PROVE  buffer'[CellOf(claimed)] = enq[claimed + 1]
            OBVIOUS
        <3>1. tail - Len(deq) < Capacity
            BY RoomForItem
        <3>2. Len(deq) = claimed /\ claimed \in Nat /\ claimed < tail
            BY DEF RingInv, QTypeOK
        <3>3. buffer'[CellOf(claimed)] = buffer[CellOf(claimed)]
            BY <1>3, <3>1, <3>2
        <3> QED  BY <3>3 DEF PoolInv
    <2> QED  BY <2>1 DEF PoolInv
<1> QED  BY <1>2, <1>5, <1>6 DEF PoolFits

\* tail_ moves over the written cell.
LEMMA EnqueuePublishIInv == IInv /\ EnqueuePublish => IInv'
<1> SUFFICES ASSUME IInv, EnqueuePublish PROVE IInv'  OBVIOUS
<1> USE DEF IInv, EnqueuePublish, consumerVars
<1>1. item \in Slots /\ enq \in Seq(Slots) /\ Len(enq) = tail /\ tail \in Nat
    BY DEF QTypeOK, RingInv
<1>2. /\ enq' \in Seq(Slots) /\ Len(enq') = tail + 1
      /\ \A i \in 1 .. tail : enq'[i] = enq[i]
      /\ enq'[tail + 1] = item
    BY <1>1, AppendProperties
<1>3. QTypeOK'
    BY <1>2 DEF QTypeOK
<1>4. RingInv'
    <2>1. /\ head \in Nat /\ claimed \in Nat /\ head <= tail
          /\ tail - head < Capacity
          /\ buffer[CellOf(tail)] = item
          /\ \A i \in head .. tail - 1 : buffer[CellOf(i)] = enq[i + 1]
          /\ cpc = "claim" => head < tail
        BY DEF RingInv, QTypeOK
    <2>2. /\ tail' = tail + 1 /\ ppc' = "idle"
          /\ buffer' = buffer /\ head' = head /\ deq' = deq
          /\ cpc' = cpc /\ claimed' = claimed
        OBVIOUS
    <2> HIDE DEF EnqueuePublish
    <2>3. \A i \in head .. tail : i = tail \/ (i \in head .. tail - 1 /\ i + 1 \in 1 .. tail)
        <3>1. \A h, n \in Nat : \A i \in h .. n :
                  i = n \/ (i \in h .. n - 1 /\ i + 1 \in 1 .. n)
            OBVIOUS
        <3> QED  BY <1>1, <2>1, <3>1
    <2>4. \A i \in head .. tail : buffer[CellOf(i)] = enq'[i + 1]
        BY <1>2, <2>1, <2>3
    <2>5. head .. (tail + 1) - 1 = head .. tail
        BY <1>1
    <2>6. (\A i \in head .. tail - 1 : buffer[CellOf(i)] = enq[i + 1])'
        BY <2>2, <2>4, <2>5
    <2>7. head' <= tail' /\ tail' - head' <= Capacity /\ Len(enq') = tail'
        BY <1>1, <1>2, <2>1, <2>2, SPSCCapacity
    <2>8. cpc' = "claim" => head' < tail'
        BY <1>1, <2>1, <2>2
    <2>9. /\ (cpc = "read" => /\ head = claimed + 1
                              /\ buffer[CellOf(claimed)] \in Slots)'
          /\ (Len(deq) = IF cpc = "read" THEN claimed ELSE head)'
        BY <2>2 DEF RingInv
    <2> QED  BY <2>2, <2>6, <2>7, <2>8, <2>9 DEF RingInv
<1>5. PoolFits => PoolInv'
    <2> SUFFICES ASSUME PoolFits PROVE PoolInv'  OBVIOUS
    <2>1. Len(deq) \in Nat /\ Len(deq) <= tail
        BY DEF RingInv, QTypeOK
    <2>2. cpc = "read" => claimed + 1 \in 1 .. tail
        BY DEF RingInv, QTypeOK
    <2>3. \A i, j \in Len(deq) + 1 .. tail + 1 : enq'[i] = enq'[j] => i = j
        BY <1>1, <1>2, <2>1 DEF PoolInv
    <2>4. \A i \in Len(deq) + 1 .. tail + 1 :
              enq'[i] \notin free /\ enq'[i] # NoSlot /\ enq'[i] # got
        BY <1>1, <1>2, <2>1, ElementOfSeq, SPSCSlots DEF PoolInv
    <2> QED  BY <1>1, <1>2, <2>1, <2>2, <2>3, <2>4 DEF PoolInv, QTypeOK
<1> QED  BY <1>3, <1>4, <1>5 DEF PoolFits

\* The consumer looks at tail_, which only moves away from it.
LEMMA DequeueCheckIInv == IInv /\ DequeueCheck => IInv'
<1> SUFFICES ASSUME IInv, DequeueCheck PROVE IInv'  OBVIOUS
<1> USE DEF IInv, DequeueCheck, producerVars
<1>1. QTypeOK'
    BY DEF QTypeOK
<1>2. RingInv'
    BY DEF RingInv, QTypeOK
<1>3. PoolFits => PoolInv'
    BY DEF PoolInv
<1> QED  BY <1>1, <1>2, <1>3 DEF PoolFits

\* The oldest cell leaves the ring and becomes the claimed one.
LEMMA DequeueClaimIInv == IInv /\ DequeueClaim => IInv'
<1> SUFFICES ASSUME IInv, DequeueClaim PROVE IInv'  OBVIOUS
<1> USE DEF IInv, DequeueClaim, producerVars
<1>1. head < tail /\ head \in Nat /\ tail \in Nat
    BY DEF RingInv, QTypeOK
<1>2. buffer[CellOf(head)] = enq[head + 1]
    BY <1>1 DEF RingInv
<1>3. enq[head + 1] \in Slots
    BY <1>1, ElementOfSeq DEF RingInv, QTypeOK
<1>4. QTypeOK'
    BY DEF QTypeOK
<1>5. RingInv'
    BY <1>1, <1>2, <1>3, SPSCCapacity DEF RingInv
<1>6. PoolFits => PoolInv'
    BY <1>1, <1>2 DEF PoolInv
<1> QED  BY <1>4, <1>5, <1>6 DEF PoolFits

\* The consumer reads the claimed cell.
LEMMA DequeueReadIInv == IInv /\ DequeueRead => IInv'
<1> SUFFICES ASSUME IInv, DequeueRead PROVE IInv'  OBVIOUS
<1> USE DEF IInv, DequeueRead, producerVars
<1>1. got' = buffer[CellOf(claimed)]
    BY DEF CellOf
<1>2. /\ got' \in Slots /\ deq \in Seq(Slots) /\ Len(deq) = claimed
      /\ claimed \in Nat /\ head = claimed + 1 /\ tail \in Nat
    BY <1>1 DEF RingInv, QTypeOK
<1>3. /\ deq' \in Seq(Slots) /\ Len(deq') = claimed + 1
      /\ \A k \in 1 .. claimed : deq'[k] = deq[k]
      /\ deq'[claimed + 1] = got'
    BY <1>2, AppendProperties
<1>4. QTypeOK'
    BY <1>2, <1>3 DEF QTypeOK
<1>5. RingInv'
    BY <1>2, <1>3 DEF RingInv
<1>6. PoolFits => PoolInv'
    <2> SUFFICES ASSUME PoolFits PROVE PoolInv'  OBVIOUS
    <2>1. got' = enq[claimed + 1]
        BY <1>1 DEF PoolInv
    <2>2. \A k \in 1 .. claimed + 1 : deq'[k] = enq[k]
        BY <1>2, <1>3, <2>1 DEF PoolInv
    <2>3. claimed + 1 \in Len(deq) + 1 .. tail
        BY <1>2 DEF RingInv
    <2>4. got' \notin free /\ got' # item
        BY <2>1, <2>3 DEF PoolInv
    <2>5. \A i \in claimed + 2 .. tail : enq[i] # got'
        BY <1>2, <2>1, <2>3 DEF PoolInv
    <2> QED  BY <1>2, <1>3, <2>2, <2>4, <2>5 DEF PoolInv
<1> QED  BY <1>4, <1>5, <1>6 DEF PoolFits

\* The buffer goes back to the pool.
LEMMA ReleaseIInv == IInv /\ ConsumerRelease => IInv'
<1> SUFFICES ASSUME IInv, ConsumerRelease PROVE IInv'  OBVIOUS
<1> USE DEF IInv, ConsumerRelease, producerVars
<1>1. QTypeOK'
    BY DEF QTypeOK
<1>2. RingInv'
    BY DEF RingInv
<1>3. PoolFits => PoolInv'
    <2> SUFFICES ASSUME PoolFits PROVE PoolInv'  OBVIOUS
    <2>1. \A i \in Len(deq) + 1 .. tail : enq[i] \in Slots
        BY ElementOfSeq DEF RingInv, QTypeOK
    <2> QED  BY <2>1, SPSCSlots DEF PoolInv, QTypeOK
<1> QED  BY <1>1, <1>2, <1>3 DEF PoolFits

\* Every step of producer and consumer keeps the invariant.
LEMMA StepIInv == IInv /\ [ProducerNext \/ ConsumerNext]_qvars => IInv'
<1> SUFFICES ASSUME IInv, [ProducerNext \/ ConsumerNext]_qvars PROVE IInv'
    OBVIOUS
<1>1. CASE ProducerNext
    BY <1>1, AllocateIInv, EnqueueCheckIInv, EnqueueWriteIInv, EnqueuePublishIInv
       DEF ProducerNext
<1>2. CASE ConsumerNext
    BY <1>2, DequeueCheckIInv, DequeueClaimIInv, DequeueReadIInv, ReleaseIInv
       DEF ConsumerNext
<1>3. CASE UNCHANGED qvars
    BY <1>3 DEF qvars, producerVars, consumerVars, IInv, QTypeOK, RingInv,
                PoolInv, PoolFits
<1> QED  BY <1>1, <1>2, <1>3

\* The invariant holds of every behaviour of the queue.
LEMMA QSpecIInv == QSpec => []IInv
BY InitIInv, StepIInv, PTL DEF QSpec

-----------------------------------------------------------------------------
\* dequeue() returns the pointers in the order of enqueue() for every capacity
\* and every pool that is no larger, also when the producer goes on between its
\* fetch_add and its read of the cell.
THEOREM SPSCDequeuedInOrder == QSpec => []DequeuedInOrder
<1>1. IInv => DequeuedInOrder
    BY DEF IInv, QTypeOK, RingInv, PoolInv, DequeuedInOrder
<1> QED  BY <1>1, QSpecIInv, PTL

\* With such a pool enqueue() never returns false: the pipeline, which does not
\* look at the result, loses no buffer.
THEOREM SPSCNeverRefused == QSpec => []NeverRefused
<1>1. IInv => NeverRefused
    <2> SUFFICES ASSUME IInv, PoolFits, ppc = "check"
                 PROVE  tail + 1 - head <= Capacity
        BY DEF NeverRefused
    <2>1. tail - Len(deq) < Capacity
        BY RoomForItem
    <2> QED  BY <2>1, SPSCCapacity DEF IInv, QTypeOK, RingInv
<1> QED  BY <1>1, QSpecIInv, PTL

-----------------------------------------------------------------------------
\* The pointers from head_ to tail_, the queue that BoundedFifo sees.
Items == [k \in 1 .. tail - head |-> buffer[(head + k - 1) % Capacity]]

\* They are what is published and not yet claimed.
ItemsPublished == IsRest(Slots, Items, enq, head)

\* The invariant says so.
LEMMA ItemsAre == IInv => ItemsPublished
<1> SUFFICES ASSUME IInv PROVE ItemsPublished  OBVIOUS
<1>1. head \in Nat /\ tail \in Nat /\ tail - head \in Nat
    BY DEF IInv, QTypeOK, RingInv
<1>2. ASSUME NEW k \in 1 .. tail - head
      PROVE  buffer[(head + k - 1) % Capacity] = enq[head + k] /\ enq[head + k] \in Slots
    <2>1. head + k - 1 \in head .. tail - 1 /\ (head + k - 1) + 1 = head + k
        BY <1>1
    <2>2. buffer[CellOf(head + k - 1)] = enq[head + k]
        BY <2>1 DEF IInv, RingInv
    <2>3. enq[head + k] \in Slots
        BY <1>1, ElementOfSeq DEF IInv, QTypeOK, RingInv
    <2> QED  BY <2>2, <2>3 DEF CellOf
<1>3. Items \in [1 .. tail - head -> Slots]
    BY <1>2 DEF Items
<1>4. Items \in Seq(Slots)
    BY <1>1, <1>3, SeqDef
<1>5. Len(Items) = tail - head
    BY <1>1, <1>3, <1>4, LenProperties
<1>6. Len(enq) = tail
    BY DEF IInv, RingInv
<1>7. \A k \in 1 .. tail - head : Items[k] = enq[head + k]
    BY <1>2 DEF Items
<1> QED  BY <1>4, <1>5, <1>6, <1>7, Zenon DEF IsRest, ItemsPublished

\* The same after a step.
LEMMA ItemsAreNext == IInv' => ItemsPublished'
BY ItemsAre, PTL

\* What the consumer has, as BoundedFifo sees it.
Held == [c \in {"consumer"} |-> Taken]

\* With a pool that fits the ring it is the pointer published at the position the
\* consumer claimed, also before it reads the cell.
LEMMA TakenIs ==
    PoolFits /\ IInv => Taken = IF cpc = "read" THEN enq[claimed + 1] ELSE got
<1> SUFFICES ASSUME IInv, PoolFits
             PROVE  Taken = IF cpc = "read" THEN enq[claimed + 1] ELSE got
    OBVIOUS
<1>1. CASE cpc = "read"
    <2>1. Taken = buffer[CellOf(claimed)]
        BY <1>1 DEF Taken, CellOf
    <2> QED  BY <1>1, <2>1 DEF IInv, PoolInv
<1>2. CASE cpc = "use"
    BY <1>2 DEF Taken
<1>3. CASE cpc \notin {"read", "use"}
    BY <1>3 DEF Taken, IInv, QTypeOK
<1> QED  BY <1>1, <1>2, <1>3

\* The same after a step.
LEMMA TakenIsNext ==
    PoolFits /\ IInv' => Taken' = IF cpc' = "read" THEN enq'[claimed' + 1] ELSE got'
<1>1. PoolFits => (PoolFits)'
    BY DEF PoolFits
<1>2. (PoolFits /\ IInv => Taken = IF cpc = "read" THEN enq[claimed + 1] ELSE got)'
    BY TakenIs, PTL
<1> QED  BY <1>1, <1>2

\* The detailed queue implements BoundedFifo for every capacity and every pool
\* that is no larger: it never holds more than capacity_ pointers, enqueue()
\* appends at the store of tail_, and dequeue() takes the oldest pointer at the
\* fetch_add on head_ and returns that one, whatever the producer does before the
\* cell is read.  (With a larger pool it is not so: the producer may then fill the
\* claimed cell again.)
THEOREM SPSCImplementsFifo ==
    ASSUME PoolFits
    PROVE  QSpec => ImplementsFifo
<1>1. QInit => Fifo!FifoInit
    <2> SUFFICES ASSUME QInit PROVE Items = << >> /\ Taken = NoSlot
        BY DEF Fifo!FifoInit, Items
    <2>1. Items \in Seq(Slots) /\ Len(Items) = Len(enq) - head
        BY InitIInv, ItemsAre DEF ItemsPublished, IsRest
    <2>2. Taken = NoSlot
        BY DEF QInit, Taken
    <2> QED  BY <2>1, <2>2, EmptySeq DEF QInit
<1>2. IInv /\ IInv' /\ [ProducerNext \/ ConsumerNext]_qvars
          => [Fifo!FifoNext]_<<Items, Held>>
    <2> SUFFICES ASSUME IInv, IInv', [ProducerNext \/ ConsumerNext]_qvars
                 PROVE  Fifo!FifoNext \/ (Items' = Items /\ Held' = Held)
        OBVIOUS
    <2>1. IsRest(Slots, Items, enq, head) /\ IsRest(Slots, Items', enq', head')
        BY ItemsAre, ItemsAreNext DEF ItemsPublished
    <2>2. /\ enq \in Seq(Slots) /\ head \in 0 .. Len(enq) /\ Len(enq) = tail
          /\ claimed \in Nat
        BY DEF IInv, QTypeOK, RingInv
    <2>3. /\ Taken = IF cpc = "read" THEN enq[claimed + 1] ELSE got
          /\ Taken' = IF cpc' = "read" THEN enq'[claimed' + 1] ELSE got'
        BY TakenIs, TakenIsNext
    <2>4. \A t, v : [[c \in {"consumer"} |-> t] EXCEPT !["consumer"] = v]
                        = [c \in {"consumer"} |-> v]
        OBVIOUS
    <2>5. CASE EnqueuePublish
        <3>1. enq' = Append(enq, item) /\ head' = head /\ item \in Slots
            BY <2>5 DEF EnqueuePublish, IInv, QTypeOK
        <3>2. Items' = Append(Items, item)
            BY <2>1, <2>2, <3>1, RestGrows
        <3>3. Len(Items) < Capacity
            BY <2>1, <2>2, <2>5 DEF IsRest, IInv, RingInv, EnqueuePublish
        <3>4. cpc' = cpc /\ claimed' = claimed /\ got' = got
            BY <2>5 DEF EnqueuePublish, consumerVars
        <3>5. cpc = "read" => enq'[claimed + 1] = enq[claimed + 1]
            <4>1. cpc = "read" => claimed + 1 \in 1 .. Len(enq)
                BY <2>2 DEF IInv, RingInv
            <4> QED  BY <2>2, <3>1, <4>1, AppendProperties
        <3>6. Taken' = Taken
            BY <2>3, <3>4, <3>5
        <3> QED  BY <3>1, <3>2, <3>3, <3>6 DEF Fifo!FifoNext, Fifo!Put, Items
    <2>6. CASE DequeueClaim
        <3>1. /\ enq' = enq /\ head' = head + 1 /\ head < Len(enq)
              /\ cpc = "claim" /\ cpc' = "read" /\ claimed' = head
            BY <2>2, <2>6 DEF DequeueClaim, IInv, RingInv
        <3>2. Items # << >> /\ Items' = Tail(Items)
            BY <2>1, <2>2, <3>1, RestShrinks
        <3>3. Taken = NoSlot
            BY <3>1 DEF Taken
        <3>4. Taken' = Head(Items)
            <4>1. Taken' = enq[head + 1]
                BY <2>3, <3>1
            <4>2. Items[1] = enq[head + 1]
                BY <2>1, <2>2, <3>1 DEF IsRest
            <4>3. Head(Items) = Items[1]
                BY <2>1, <3>2, HeadTailProperties DEF IsRest
            <4> QED  BY <4>1, <4>2, <4>3
        <3>5. Fifo!Take("consumer")
            BY <2>4, <3>2, <3>3, <3>4 DEF Fifo!Take, Items
        <3> QED  BY <3>5 DEF Fifo!FifoNext
    <2>7. CASE ConsumerRelease
        <3>1. /\ cpc = "use" /\ cpc' = "idle" /\ got \in Slots /\ got' = NoSlot
              /\ head' = head /\ enq' = enq
            BY <2>7 DEF ConsumerRelease, producerVars, IInv, QTypeOK
        <3>2. Items' = Items
            BY <2>1, <2>2, <3>1, RestUnique
        <3>3. Taken # NoSlot /\ Taken' = NoSlot
            BY <2>3, <3>1, SPSCSlots
        <3>4. Fifo!Finish("consumer")
            BY <2>4, <3>2, <3>3 DEF Fifo!Finish, Items
        <3> QED  BY <3>4 DEF Fifo!FifoNext
    <2>8. CASE DequeueRead
        <3>1. /\ cpc = "read" /\ cpc' = "use" /\ got' = buffer[claimed % Capacity]
              /\ head' = head /\ enq' = enq
            BY <2>8 DEF DequeueRead, producerVars
        <3>2. Items' = Items
            BY <2>1, <2>2, <3>1, RestUnique
        <3>3. Taken' = Taken
            BY <2>3, <3>1 DEF Taken
        <3> QED  BY <3>2, <3>3 DEF Held
    <2>9. CASE UNCHANGED <<head, enq, claimed, got>> /\ cpc # "read" /\ cpc' # "read"
        <3>1. Items' = Items
            BY <2>1, <2>2, <2>9, RestUnique
        <3> QED  BY <2>3, <2>9, <3>1 DEF Held
    <2>10. CASE UNCHANGED <<head, enq, claimed, got, cpc>>
        <3>1. Items' = Items
            BY <2>1, <2>2, <2>10, RestUnique
        <3> QED  BY <2>3, <2>10, <3>1 DEF Held
    <2> QED
        BY <2>5, <2>6, <2>7, <2>8, <2>9, <2>10
           DEF ProducerNext, ConsumerNext, qvars, consumerVars, ProducerAllocate,
               EnqueueCheck, EnqueueWrite, DequeueCheck
<1> QED  BY <1>1, <1>2, QSpecIInv, PTL
            DEF QSpec, ImplementsFifo, Fifo!FifoSpec, Fifo!fifoVars, Items, Held

=============================================================================
