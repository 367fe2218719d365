--------------------------- MODULE MPMCQueueProofs ---------------------------
(***************************************************************************)
(* CustomMPMCLockFreeQueue for any number of producers and consumers, every *)
(* pool and every capacity but one: with a single cell the turn of the      *)
(* consumer, pos + 1, is also that of the next producer, pos + capacity_,   *)
(* and the queue overwrites what it holds (its constructor lets 1 pass).    *)
(***************************************************************************)
EXTENDS MPMCQueue, CommonLemmas, FiniteSetTheorems, SequenceTheorems, TLAPS

-----------------------------------------------------------------------------
\* The index of a position in buffer_.
CellOf(i) == i % Capacity

\* It is one of the cells.
LEMMA CellOfType == \A i \in Nat : CellOf(i) \in 0 .. Capacity - 1
BY CellInRing, MPMCCapacity DEF CellOf

\* No two positions less than a turn apart share a cell.
LEMMA CellOfDiffers ==
    \A i, j \in Nat : i < j /\ j - i < Capacity => CellOf(i) # CellOf(j)
BY CellsDiffer, MPMCCapacity, Zenon DEF CellOf

\* Positions a turn apart do.
LEMMA CellOfNextTurn == \A i \in Nat : CellOf(i + Capacity) = CellOf(i)
BY SameCellNextTurn, MPMCCapacity, Zenon DEF CellOf

SeqAt(q)   == buffer[CellOf(q)].seq
DataAt(q)  == buffer[CellOf(q)].data
Writing(p) == pc[p] \in {"write", "publish"}
Reading(c) == pc[c] \in {"read", "release"}

\* Where the threads are and what their locals can be.
LocalInv ==
    /\ \A p \in Producers : /\ pc[p] \in {"idle", "look", "claim", "write", "publish"}
                            /\ pos[p] <= tail
                            /\ pc[p] # "idle" => item[p] \in Slots
    /\ \A c \in Consumers : /\ pc[c] \in {"idle", "look", "claim", "read", "release", "use"}
                            /\ pos[c] <= head
    /\ Len(enq) = tail

\* Whose turn each cell is.  From head_ to tail_ a cell holds its pointer or
\* waits for the producer that claimed it; behind tail_ it is empty or waits for
\* the consumer of a turn before.
TurnInv ==
    /\ head <= tail /\ tail <= head + Capacity
    /\ \A q \in head .. tail - 1 :
          \/ SeqAt(q) = q + 1 /\ DataAt(q) = enq[q + 1]
          \/ SeqAt(q) = q /\ \E p \in Producers : Writing(p) /\ pos[p] = q
    /\ \A r \in tail .. head + Capacity - 1 :
          \/ SeqAt(r) = r
          \/ /\ SeqAt(r) = r - Capacity + 1
             /\ \E c \in Consumers : Reading(c) /\ pos[c] = r - Capacity
    /\ \A q \in 0 .. head - 1 : SeqAt(q) > q

\* A producer past its exchange has the turn of a cell of its own ...
WriterInv ==
    \A p \in Producers :
        /\ pc[p] = "claim" /\ pos[p] = tail => SeqAt(tail) = tail
        /\ Writing(p) => /\ head <= pos[p] /\ pos[p] < tail
                         /\ SeqAt(pos[p]) = pos[p]
                         /\ item[p] = enq[pos[p] + 1]
        /\ pc[p] = "publish" => DataAt(pos[p]) = item[p]
        /\ \A o \in Producers : Writing(p) /\ Writing(o) /\ pos[p] = pos[o] => p = o

\* ... and so has a consumer.
ReaderInv ==
    \A c \in Consumers :
        /\ pc[c] = "claim" /\ pos[c] = head => SeqAt(head) = head + 1
        /\ Reading(c) => /\ pos[c] < head /\ tail <= pos[c] + Capacity
                         /\ SeqAt(pos[c]) = pos[c] + 1
        /\ pc[c] = "read" => DataAt(pos[c]) = enq[pos[c] + 1]
        /\ pc[c] \in {"release", "use"} => pos[c] < head /\ item[c] = enq[pos[c] + 1]
        /\ \A o \in Consumers :
              /\ Reading(c) \/ pc[c] = "use"
              /\ Reading(o) \/ pc[o] = "use"
              /\ pos[c] = pos[o]
              => c = o

\* Positions whose pointer is in the queue or with a consumer.
Live(q) == \/ q \in head .. tail - 1
           \/ \E c \in Consumers : (Reading(c) \/ pc[c] = "use") /\ pos[c] = q

\* Their buffers, those of producers before their exchange and those in the pool
\* are all different.
OwnInv ==
    /\ \A q \in 0 .. tail - 1 : Live(q) => enq[q + 1] \notin free
    /\ \A q, r \in 0 .. tail - 1 :
          Live(q) /\ Live(r) /\ enq[q + 1] = enq[r + 1] => q = r
    /\ \A p \in Producers : pc[p] \in {"look", "claim"} =>
          /\ item[p] \notin free
          /\ \A q \in 0 .. tail - 1 : Live(q) => item[p] # enq[q + 1]
          /\ \A o \in Producers : pc[o] \in {"look", "claim"} /\ item[p] = item[o] => p = o

IInv == QTypeOK /\ LocalInv /\ TurnInv /\ WriterInv /\ ReaderInv /\ OwnInv

-----------------------------------------------------------------------------
\* A step of t leaves the locals of the other threads alone.
OthersSame(t) ==
    \A u \in Threads \ {t} : pc'[u] = pc[u] /\ pos'[u] = pos[u] /\ item'[u] = item[u]

\* No thread is both.
LEMMA Roles ==
    /\ Producers \subseteq Threads /\ Consumers \subseteq Threads
    /\ \A p \in Producers : p \notin Consumers
BY MPMCThreads DEF Threads

\* The first turn of every cell is its producer's.
LEMMA InitIInv == QInit => IInv
<1> SUFFICES ASSUME QInit PROVE IInv  OBVIOUS
<1> USE DEF QInit
<1>1. QTypeOK
    BY DEF QTypeOK
<1>2. LocalInv
    BY Roles DEF LocalInv
<1>3. \A r \in 0 .. Capacity - 1 : SeqAt(r) = r
    <2> SUFFICES ASSUME NEW r \in 0 .. Capacity - 1 PROVE SeqAt(r) = r  OBVIOUS
    <2>1. r % Capacity = r
        BY MPMCCapacity, Z3
    <2>2. CellOf(r) = r
        BY <2>1, Zenon DEF CellOf
    <2> QED  BY <2>2 DEF SeqAt
<1>4. TurnInv
    BY <1>3, MPMCCapacity DEF TurnInv
<1>5. WriterInv /\ ReaderInv
    BY Roles DEF WriterInv, ReaderInv, Writing, Reading
<1>6. OwnInv
    BY Roles, MPMCCapacity DEF OwnInv
<1> QED  BY <1>1, <1>2, <1>4, <1>5, <1>6 DEF IInv

\* log() takes a buffer from the pool and enqueue() loads tail_.
LEMMA EnqueueLoadIInv ==
    ASSUME IInv, NEW p \in Producers, EnqueueLoad(p)
    PROVE  IInv'
<1> USE DEF IInv, EnqueueLoad, Go
<1>1. PICK s \in free : free' = free \ {s} /\ item' = [item EXCEPT ![p] = s]  OBVIOUS
<1>2. QTypeOK'
    BY <1>1, Roles DEF QTypeOK
<1>3. OthersSame(p)
    BY <1>1, Roles DEF OthersSame, QTypeOK
<1>4. pc'[p] = "look" /\ pos'[p] = tail /\ item'[p] = s
    BY <1>1, Roles DEF QTypeOK
<1>5. UNCHANGED <<buffer, head, tail, enq>>
    OBVIOUS
<1>6. s \in Slots
    BY DEF QTypeOK
<1> USE DEF OthersSame, SeqAt, DataAt, Writing, Reading
<1>7. LocalInv'
    BY <1>3, <1>4, <1>5, <1>6, Roles DEF LocalInv, QTypeOK
<1>8. TurnInv'
    BY <1>3, <1>4, <1>5, Roles DEF TurnInv
<1>9. WriterInv'
    BY <1>3, <1>4, <1>5, Roles DEF WriterInv
<1>10. ReaderInv'
    BY <1>3, <1>4, <1>5, Roles DEF ReaderInv
<1>11. \A q : Live(q)' <=> Live(q)
    BY <1>3, <1>5, Roles DEF Live
<1>12. OwnInv'
    BY <1>1, <1>3, <1>4, <1>5, <1>11, Roles DEF OwnInv
<1> QED  BY <1>2, <1>7, <1>8, <1>9, <1>10, <1>12

\* A producer that loads or compares, and may give up or go to the exchange.
LEMMA ProducerLooks ==
    ASSUME IInv, QTypeOK', NEW p \in Producers, OthersSame(p),
           UNCHANGED <<buffer, head, tail, free, enq>>,
           pc[p] \in {"look", "claim"}, pc'[p] \in {"idle", "look", "claim"},
           pc'[p] # "idle" => item'[p] = item[p],
           pos'[p] <= tail,
           pc'[p] = "claim" => SeqAt(pos'[p]) = pos'[p]
    PROVE  IInv'
<1> USE DEF IInv, OthersSame, SeqAt, DataAt, Writing, Reading
<1>1. LocalInv'
    BY Roles DEF LocalInv, QTypeOK
<1>2. TurnInv'
    BY Roles DEF TurnInv
<1>3. WriterInv'
    BY Roles DEF WriterInv
<1>4. ReaderInv'
    BY Roles DEF ReaderInv
<1>5. \A q : Live(q)' <=> Live(q)
    BY Roles DEF Live
<1>6. OwnInv'
    BY <1>5, Roles DEF OwnInv
<1> QED  BY <1>1, <1>2, <1>3, <1>4, <1>6

\* The cell is compared with pos: to the exchange, give up, or load again.
LEMMA EnqueueLookIInv ==
    ASSUME IInv, NEW p \in Producers, EnqueueLook(p)
    PROVE  IInv'
<1> USE DEF IInv, Go, Forget
<1>1. Cell(p).seq = SeqAt(pos[p])
    BY Zenon DEF Cell, SeqAt, CellOf
<1>2. QTypeOK'
    <2>1. pc' \in [Threads -> {"idle", "look", "claim", "write", "publish",
                              "read", "release", "use"}]
        BY Roles DEF EnqueueLook, QTypeOK
    <2>2. pos' \in [Threads -> Nat]
        BY Roles DEF EnqueueLook, QTypeOK
    <2>3. item' \in [Threads -> Slots \union {NoSlot}]
        BY Roles DEF EnqueueLook, QTypeOK
    <2>4. UNCHANGED <<buffer, head, tail, free, enq>>
        BY DEF EnqueueLook
    <2> QED  BY <2>1, <2>2, <2>3, <2>4 DEF QTypeOK
<1>3. OthersSame(p)
    BY Roles DEF EnqueueLook, QTypeOK, OthersSame
<1>4. UNCHANGED <<buffer, head, tail, free, enq>>
    BY DEF EnqueueLook
<1>5. pc[p] = "look" /\ pc'[p] \in {"idle", "look", "claim"} /\ pos'[p] <= tail
    BY Roles DEF EnqueueLook, QTypeOK, LocalInv
<1>6. pc'[p] # "idle" => item'[p] = item[p]
    BY Roles DEF EnqueueLook, QTypeOK
<1>7. pc'[p] = "claim" => SeqAt(pos'[p]) = pos'[p]
    BY <1>1, Roles DEF EnqueueLook, QTypeOK
<1> QED  BY <1>2, <1>3, <1>4, <1>5, <1>6, <1>7, ProducerLooks

\* A failed exchange loads tail_.
LEMMA EnqueueRetryIInv ==
    ASSUME IInv, NEW p \in Producers, Go(p, "claim", "look"),
           pos' = [pos EXCEPT ![p] = tail],
           UNCHANGED <<buffer, head, tail, free, item, enq>>
    PROVE  IInv'
<1> USE DEF IInv, Go
<1>1. QTypeOK'
    BY Roles DEF QTypeOK
<1>2. OthersSame(p)
    BY Roles DEF QTypeOK, OthersSame
<1>3. pc[p] = "claim" /\ pc'[p] = "look" /\ pos'[p] = tail
    BY Roles DEF QTypeOK
<1> QED  BY <1>1, <1>2, <1>3, ProducerLooks DEF QTypeOK

\* A consumer that loads or compares.
LEMMA ConsumerLooks ==
    ASSUME IInv, QTypeOK', NEW c \in Consumers, OthersSame(c),
           UNCHANGED <<buffer, head, tail, free, enq>>,
           pc[c] \in {"idle", "look", "claim"}, pc'[c] \in {"idle", "look", "claim"},
           pos'[c] <= head,
           pc'[c] = "claim" => SeqAt(pos'[c]) = pos'[c] + 1
    PROVE  IInv'
<1> USE DEF IInv, OthersSame, SeqAt, DataAt, Writing, Reading
<1>1. LocalInv'
    BY Roles DEF LocalInv, QTypeOK
<1>2. TurnInv'
    BY Roles DEF TurnInv
<1>3. WriterInv'
    BY Roles DEF WriterInv
<1>4. ReaderInv'
    BY Roles DEF ReaderInv
<1>5. \A q : Live(q)' <=> Live(q)
    BY Roles DEF Live
<1>6. OwnInv'
    BY <1>5, Roles DEF OwnInv
<1> QED  BY <1>1, <1>2, <1>3, <1>4, <1>6

\* dequeue() loads head_.
LEMMA DequeueLoadIInv ==
    ASSUME IInv, NEW c \in Consumers, DequeueLoad(c)
    PROVE  IInv'
<1> USE DEF IInv, Go, DequeueLoad
<1>1. QTypeOK'
    BY Roles DEF QTypeOK
<1>2. OthersSame(c)
    BY Roles DEF QTypeOK, OthersSame
<1>3. pc[c] = "idle" /\ pc'[c] = "look" /\ pos'[c] = head
    BY Roles DEF QTypeOK
<1> QED  BY <1>1, <1>2, <1>3, ConsumerLooks DEF QTypeOK

\* The cell is compared with pos + 1.
LEMMA DequeueLookIInv ==
    ASSUME IInv, NEW c \in Consumers, DequeueLook(c)
    PROVE  IInv'
<1> USE DEF IInv, Go, Forget
<1>1. Cell(c).seq = SeqAt(pos[c])
    BY Zenon DEF Cell, SeqAt, CellOf
<1>2. QTypeOK'
    <2>1. pc' \in [Threads -> {"idle", "look", "claim", "write", "publish",
                              "read", "release", "use"}]
        BY Roles DEF DequeueLook, QTypeOK
    <2>2. pos' \in [Threads -> Nat]
        BY Roles DEF DequeueLook, QTypeOK
    <2>3. item' \in [Threads -> Slots \union {NoSlot}]
        BY Roles DEF DequeueLook, QTypeOK
    <2>4. UNCHANGED <<buffer, head, tail, free, enq>>
        BY DEF DequeueLook
    <2> QED  BY <2>1, <2>2, <2>3, <2>4 DEF QTypeOK
<1>3. OthersSame(c)
    BY Roles DEF DequeueLook, QTypeOK, OthersSame
<1>4. UNCHANGED <<buffer, head, tail, free, enq>>
    BY DEF DequeueLook
<1>5. pc[c] = "look" /\ pc'[c] \in {"idle", "look", "claim"} /\ pos'[c] <= head
    BY Roles DEF DequeueLook, QTypeOK, LocalInv
<1>6. pc'[c] = "claim" => SeqAt(pos'[c]) = pos'[c] + 1
    BY <1>1, Roles DEF DequeueLook, QTypeOK
<1> QED  BY <1>2, <1>3, <1>4, <1>5, <1>6, ConsumerLooks

\* A failed exchange loads head_.
LEMMA DequeueRetryIInv ==
    ASSUME IInv, NEW c \in Consumers, Go(c, "claim", "look"),
           pos' = [pos EXCEPT ![c] = head],
           UNCHANGED <<buffer, head, tail, free, item, enq>>
    PROVE  IInv'
<1> USE DEF IInv, Go
<1>1. QTypeOK'
    BY Roles DEF QTypeOK
<1>2. OthersSame(c)
    BY Roles DEF QTypeOK, OthersSame
<1>3. pc[c] = "claim" /\ pc'[c] = "look" /\ pos'[c] = head
    BY Roles DEF QTypeOK
<1> QED  BY <1>1, <1>2, <1>3, ConsumerLooks DEF QTypeOK

-----------------------------------------------------------------------------
\* When the cell of tail_ has the producer's turn, the ring has room and no
\* consumer works on that cell.
LEMMA RoomToClaim ==
    ASSUME Capacity > 1, IInv, SeqAt(tail) = tail
    PROVE  /\ tail < head + Capacity
           /\ \A c \in Consumers : Reading(c) => tail < pos[c] + Capacity
<1>1. head \in Nat /\ tail \in Nat /\ head <= tail /\ tail <= head + Capacity
    BY DEF IInv, QTypeOK, TurnInv
<1>2. tail # head + Capacity
    <2> SUFFICES ASSUME tail = head + Capacity PROVE FALSE  OBVIOUS
    <2>1. SeqAt(tail) = SeqAt(head)
        BY <1>1, CellOfNextTurn DEF SeqAt
    <2>2. head \in head .. tail - 1
        BY <1>1, MPMCCapacity
    <2>3. SeqAt(head) = head + 1 \/ SeqAt(head) = head
        BY <2>2 DEF IInv, TurnInv
    <2> QED  BY <1>1, <2>1, <2>3, MPMCCapacity
<1>3. ASSUME NEW c \in Consumers, Reading(c)
      PROVE  tail < pos[c] + Capacity
    <2>1. pos[c] \in Nat /\ tail <= pos[c] + Capacity /\ SeqAt(pos[c]) = pos[c] + 1
        BY <1>3, Roles DEF IInv, QTypeOK, ReaderInv
    <2>2. tail # pos[c] + Capacity
        <3> SUFFICES ASSUME tail = pos[c] + Capacity PROVE FALSE  OBVIOUS
        <3>1. SeqAt(tail) = SeqAt(pos[c])
            BY <2>1, CellOfNextTurn DEF SeqAt
        <3> QED  BY <2>1, <3>1, MPMCCapacity
    <2> QED  BY <1>1, <2>1, <2>2, MPMCCapacity
<1> QED  BY <1>1, <1>2, <1>3, MPMCCapacity

\* The exchange of enqueue() when it succeeds.
EnqueueMove(p) ==
    /\ tail = pos[p]
    /\ Go(p, "claim", "write")
    /\ tail' = tail + 1
    /\ enq' = Append(enq, item[p])
    /\ UNCHANGED <<buffer, head, free, pos, item>>

\* A producer moves tail_ over the cell whose turn it saw.
LEMMA EnqueueMoveIInv ==
    ASSUME Capacity > 1, IInv, NEW p \in Producers, EnqueueMove(p)
    PROVE  IInv'
<1> USE DEF IInv
<1>1. head \in Nat /\ tail \in Nat /\ head <= tail /\ pc[p] = "claim" /\ pos[p] = tail
    BY DEF QTypeOK, TurnInv, EnqueueMove, Go
<1>2. SeqAt(tail) = tail
    BY <1>1 DEF WriterInv
<1>3. /\ tail < head + Capacity
      /\ \A c \in Consumers : Reading(c) => tail < pos[c] + Capacity
    BY <1>2, RoomToClaim
<1>4. item[p] \in Slots /\ enq \in Seq(Slots) /\ Len(enq) = tail
    BY <1>1 DEF QTypeOK, LocalInv
<1>5. /\ enq' \in Seq(Slots) /\ Len(enq') = tail + 1
      /\ \A i \in 1 .. tail : enq'[i] = enq[i]
      /\ enq'[tail + 1] = item[p]
    BY <1>1, <1>4, AppendProperties DEF EnqueueMove
<1>6. OthersSame(p) /\ pc'[p] = "write" /\ pos'[p] = tail /\ item'[p] = item[p]
    BY Roles DEF QTypeOK, OthersSame, EnqueueMove, Go
<1>7. QTypeOK'
    BY <1>1, <1>5, Roles DEF QTypeOK, EnqueueMove, Go
<1>8. pos \in [Threads -> Nat]
    BY DEF QTypeOK
<1>15. \A q : SeqAt(q)' = SeqAt(q) /\ DataAt(q)' = DataAt(q)
    BY DEF SeqAt, DataAt, EnqueueMove
<1>16. head' = head /\ tail' = tail + 1 /\ free' = free
    BY DEF EnqueueMove
<1> USE DEF OthersSame, Writing, Reading
<1>9. LocalInv'
    <2>1. \A o \in Producers :
              /\ pc'[o] \in {"idle", "look", "claim", "write", "publish"}
              /\ pos'[o] <= tail'
              /\ pc'[o] # "idle" => item'[o] \in Slots
        <3> SUFFICES ASSUME NEW o \in Producers
                     PROVE  /\ pc'[o] \in {"idle", "look", "claim", "write", "publish"}
                            /\ pos'[o] <= tail'
                            /\ pc'[o] # "idle" => item'[o] \in Slots
            OBVIOUS
        <3>1. CASE o = p
            BY <1>1, <1>4, <1>6, <1>16, <3>1
        <3>2. CASE o # p
            BY <1>1, <1>6, <1>8, <1>16, <3>2, Roles DEF LocalInv
        <3> QED  BY <3>1, <3>2
    <2>2. \A c \in Consumers :
              /\ pc'[c] \in {"idle", "look", "claim", "read", "release", "use"}
              /\ pos'[c] <= head'
        BY <1>6, <1>16, Roles DEF LocalInv
    <2> QED  BY <1>5, <1>16, <2>1, <2>2 DEF LocalInv
<1>10. TurnInv'
    <2>1. \A q \in head .. tail' - 1 :
             \/ SeqAt(q)' = q + 1 /\ DataAt(q)' = enq'[q + 1]
             \/ SeqAt(q)' = q /\ \E o \in Producers : Writing(o)' /\ pos'[o] = q
        <3> SUFFICES ASSUME NEW q \in head .. tail
                     PROVE  \/ SeqAt(q) = q + 1 /\ DataAt(q) = enq'[q + 1]
                            \/ SeqAt(q) = q /\ \E o \in Producers : Writing(o)' /\ pos'[o] = q
            BY <1>1, <1>15, <1>16
        <3>1. CASE q = tail
            BY <1>2, <1>6, <3>1
        <3>2. CASE q \in head .. tail - 1
            <4>1. enq'[q + 1] = enq[q + 1]
                BY <1>1, <1>5, <3>2
            <4>2. \A o \in Producers : Writing(o) => Writing(o)' /\ pos'[o] = pos[o]
                BY <1>1, <1>6, Roles
            <4> QED  BY <3>2, <4>1, <4>2 DEF TurnInv
        <3>3. q = tail \/ q \in head .. tail - 1  BY <1>1
        <3> QED  BY <3>1, <3>2, <3>3, Zenon
    <2>2. \A r \in tail' .. head + Capacity - 1 :
             \/ SeqAt(r)' = r
             \/ /\ SeqAt(r)' = r - Capacity + 1
                /\ \E c \in Consumers : Reading(c)' /\ pos'[c] = r - Capacity
        BY <1>1, <1>6, <1>15, <1>16, Roles DEF TurnInv
    <2>3. \A q \in 0 .. head - 1 : SeqAt(q)' > q
        BY <1>15 DEF TurnInv
    <2>4. head <= tail' /\ tail' <= head + Capacity
        BY <1>1, <1>3, <1>16, MPMCCapacity
    <2> QED  BY <1>16, <2>1, <2>2, <2>3, <2>4 DEF TurnInv
<1>11. WriterInv'
    <2>1. \A o \in Producers : pos'[o] = pos[o] /\ item'[o] = item[o]
        BY <1>1, <1>6, Roles
    <2>2. \A o \in Producers : o # p => pc'[o] = pc[o]
        BY <1>6, Roles
    <2>3. \A o \in Producers : pos[o] \in Nat /\ pos[o] <= tail
        BY <1>8, Roles DEF LocalInv
    <2>4. \A o \in Producers : Writing(o)' => o = p \/ Writing(o)
        BY <2>2
    <2>5. \A o \in Producers : pc'[o] = "claim" => pos'[o] # tail'
        BY <1>1, <1>16, <2>1, <2>3
    <2>6. ASSUME NEW o \in Producers, Writing(o)'
          PROVE  /\ head <= pos[o] /\ pos[o] < tail + 1 /\ SeqAt(pos[o]) = pos[o]
                 /\ item[o] = enq'[pos[o] + 1]
        <3>1. CASE o = p
            BY <1>1, <1>2, <1>5, <3>1
        <3>2. CASE Writing(o)
            <4>1. /\ head <= pos[o] /\ pos[o] < tail /\ SeqAt(pos[o]) = pos[o]
                  /\ item[o] = enq[pos[o] + 1]
                BY <3>2 DEF WriterInv
            <4>2. pos[o] + 1 \in 1 .. tail /\ pos[o] < tail + 1
                BY <1>1, <2>3, <4>1
            <4> QED  BY <1>5, <4>1, <4>2
        <3> QED  BY <2>4, <2>6, <3>1, <3>2
    <2>7. \A o \in Producers : pc'[o] = "publish" => DataAt(pos[o]) = item[o]
        BY <1>6, <2>2 DEF WriterInv
    <2>8. ASSUME NEW o \in Producers, NEW u \in Producers, Writing(o)', Writing(u)',
                 pos[o] = pos[u]
          PROVE  o = u
        <3>1. \A x \in Producers : Writing(x) => pos[x] # tail
            BY <1>1, <2>3 DEF WriterInv
        <3>2. CASE Writing(o) /\ Writing(u)
            BY <2>8, <3>2 DEF WriterInv
        <3> QED  BY <1>1, <2>4, <2>8, <3>1, <3>2
    <2> QED  BY <1>15, <1>16, <2>1, <2>5, <2>6, <2>7, <2>8 DEF WriterInv
<1>12. ReaderInv'
    BY <1>1, <1>3, <1>5, <1>6, <1>8, <1>15, <1>16, Roles, MPMCCapacity DEF ReaderInv
<1>13. \A q \in 0 .. tail : Live(q)' <=> Live(q) \/ q = tail
    BY <1>1, <1>6, <1>16, Roles DEF Live
<1>14. OwnInv'
    <2>1. \A q \in 0 .. tail : enq'[q + 1] = IF q = tail THEN item[p] ELSE enq[q + 1]
        BY <1>1, <1>5
    <2>2. \A q \in 0 .. tail : Live(q)' => enq'[q + 1] \notin free
        BY <1>1, <1>13, <2>1 DEF OwnInv
    <2>3. \A q, r \in 0 .. tail :
              Live(q)' /\ Live(r)' /\ enq'[q + 1] = enq'[r + 1] => q = r
        BY <1>1, <1>13, <2>1 DEF OwnInv
    <2>4. \A o \in Producers : pc'[o] \in {"look", "claim"} =>
              o # p /\ pc'[o] = pc[o] /\ item'[o] = item[o]
        BY <1>6, Roles
    <2>5. \A o \in Producers : pc'[o] \in {"look", "claim"} =>
              \A q \in 0 .. tail : Live(q)' => item'[o] # enq'[q + 1]
        BY <1>1, <1>13, <2>1, <2>4 DEF OwnInv
    <2>6. \A o \in Producers : pc'[o] \in {"look", "claim"} =>
              /\ item'[o] \notin free
              /\ \A u \in Producers :
                    pc'[u] \in {"look", "claim"} /\ item'[o] = item'[u] => o = u
        BY <2>4 DEF OwnInv
    <2>7. 0 .. tail' - 1 = 0 .. tail
        BY <1>1, <1>16
    <2> QED  BY <1>16, <2>2, <2>3, <2>5, <2>6, <2>7 DEF OwnInv
<1> QED  BY <1>7, <1>9, <1>10, <1>11, <1>12, <1>14

\* cell->data = ptr: only the cell of this position changes.
LEMMA EnqueueWriteIInv ==
    ASSUME IInv, NEW p \in Producers, EnqueueWrite(p)
    PROVE  IInv'
<1> USE DEF IInv
<1>1. /\ pos[p] \in Nat /\ head \in Nat /\ tail \in Nat /\ head <= pos[p]
      /\ pos[p] < tail /\ tail <= head + Capacity /\ Writing(p)
    BY Roles DEF QTypeOK, TurnInv, WriterInv, EnqueueWrite, Go, Writing
<1>2. OthersSame(p) /\ pc'[p] = "publish" /\ pos' = pos /\ item' = item
    BY Roles DEF QTypeOK, OthersSame, EnqueueWrite, Go
<1>3. head' = head /\ tail' = tail /\ free' = free /\ enq' = enq
    BY DEF EnqueueWrite
<1>4. buffer' = [buffer EXCEPT ![CellOf(pos[p])].data = item[p]]
    BY Zenon DEF EnqueueWrite, CellOf
<1>5. CellOf(pos[p]) \in 0 .. Capacity - 1
    BY <1>1, CellOfType
<1>6. QTypeOK'
    <2>1. buffer' \in [0 .. Capacity - 1 -> [seq : Nat, data : Slots \union {NoSlot}]]
        BY <1>4, <1>5, Roles DEF QTypeOK
    <2>2. pc' \in [Threads -> {"idle", "look", "claim", "write", "publish",
                              "read", "release", "use"}]
        BY Roles DEF QTypeOK, EnqueueWrite, Go
    <2> QED  BY <1>2, <1>3, <2>1, <2>2 DEF QTypeOK
<1>7. \A q \in Nat : SeqAt(q)' = SeqAt(q)
    BY <1>4, <1>5, CellOfType DEF QTypeOK, SeqAt
<1>8. \A q \in Nat : CellOf(q) # CellOf(pos[p]) => DataAt(q)' = DataAt(q)
    BY <1>4, <1>5, CellOfType DEF QTypeOK, DataAt
<1>9. DataAt(pos[p])' = item[p]
    BY <1>2, <1>4, <1>5 DEF QTypeOK, DataAt
<1>10. \A q \in head .. tail - 1 : q # pos[p] => DataAt(q)' = DataAt(q)
    BY <1>1, <1>8, CellOfDiffers, MPMCCapacity
<1>11. pos \in [Threads -> Nat]
    BY DEF QTypeOK
<1> USE DEF OthersSame, Writing, Reading
<1>12. LocalInv'
    BY <1>1, <1>2, <1>3, Roles DEF LocalInv
<1>13. TurnInv'
    <2>1. \A q \in head .. tail - 1 :
             \/ SeqAt(q)' = q + 1 /\ DataAt(q)' = enq[q + 1]
             \/ SeqAt(q)' = q /\ \E o \in Producers : Writing(o)' /\ pos[o] = q
        <3> SUFFICES ASSUME NEW q \in head .. tail - 1
                     PROVE  \/ SeqAt(q)' = q + 1 /\ DataAt(q)' = enq[q + 1]
                            \/ SeqAt(q)' = q /\ \E o \in Producers : Writing(o)' /\ pos[o] = q
            OBVIOUS
        <3>1. SeqAt(q)' = SeqAt(q)
            BY <1>1, <1>7
        <3>2. CASE q = pos[p]
            BY <1>1, <1>2, <3>1, <3>2 DEF WriterInv
        <3>3. CASE q # pos[p]
            <4>1. \A o \in Producers : Writing(o) => Writing(o)'
                BY <1>2, Roles
            <4> QED  BY <1>10, <3>1, <3>3, <4>1 DEF TurnInv
        <3> QED  BY <3>2, <3>3
    <2>2. \A r \in tail .. head + Capacity - 1 :
             \/ SeqAt(r)' = r
             \/ /\ SeqAt(r)' = r - Capacity + 1
                /\ \E c \in Consumers : Reading(c)' /\ pos[c] = r - Capacity
        BY <1>1, <1>2, <1>7, Roles DEF TurnInv
    <2>3. \A q \in 0 .. head - 1 : SeqAt(q)' > q
        BY <1>1, <1>7 DEF TurnInv
    <2> QED  BY <1>2, <1>3, <2>1, <2>2, <2>3 DEF TurnInv
<1>14. WriterInv'
    <2>1. \A o \in Producers : Writing(o) /\ o # p => DataAt(pos[o])' = DataAt(pos[o])
        <3> SUFFICES ASSUME NEW o \in Producers, Writing(o), o # p
                     PROVE  DataAt(pos[o])' = DataAt(pos[o])
            OBVIOUS
        <3>1. pos[o] \in head .. tail - 1 /\ pos[o] # pos[p]
            BY <1>1, <1>11, Roles DEF WriterInv
        <3>2. pos'[o] = pos[o]
            BY <1>2
        <3> QED  BY <1>10, <3>1, <3>2
    <2> QED  BY <1>1, <1>2, <1>3, <1>7, <1>9, <1>11, <2>1, Roles DEF WriterInv
<1>15. ReaderInv'
    <2>1. \A c \in Consumers : Reading(c) => DataAt(pos[c])' = DataAt(pos[c])
        <3> SUFFICES ASSUME NEW c \in Consumers, Reading(c)
                     PROVE  DataAt(pos[c])' = DataAt(pos[c])
            OBVIOUS
        <3>1. pos[c] \in Nat /\ pos[c] < head /\ tail <= pos[c] + Capacity
            BY <1>11, Roles DEF ReaderInv
        <3>2. CellOf(pos[c]) # CellOf(pos[p])
            BY <1>1, <3>1, CellOfDiffers, MPMCCapacity
        <3> QED  BY <1>2, <1>8, <3>1, <3>2
    <2> QED  BY <1>1, <1>2, <1>3, <1>7, <1>11, <2>1, Roles DEF ReaderInv
<1>16. \A q : Live(q)' <=> Live(q)
    BY <1>2, <1>3, Roles DEF Live
<1>17. OwnInv'
    BY <1>1, <1>2, <1>3, <1>16, Roles DEF OwnInv
<1> QED  BY <1>6, <1>12, <1>13, <1>14, <1>15, <1>17

\* cell->seq.store(pos + 1): the turn passes to the consumer of the position.
LEMMA EnqueuePublishIInv ==
    ASSUME IInv, NEW p \in Producers, EnqueuePublish(p)
    PROVE  IInv'
<1> USE DEF IInv
<1> DEFINE k == pos[p]
<1>1. /\ k \in Nat /\ head \in Nat /\ tail \in Nat /\ head <= k
      /\ k < tail /\ tail <= head + Capacity /\ Writing(p)
    BY Roles DEF QTypeOK, TurnInv, WriterInv, EnqueuePublish, Go, Writing
<1>2. DataAt(k) = enq[k + 1] /\ SeqAt(k) = k
    BY <1>1 DEF WriterInv, EnqueuePublish, Go
<1>3. OthersSame(p) /\ pc'[p] = "idle" /\ pos'[p] = 0
    BY Roles DEF QTypeOK, OthersSame, EnqueuePublish, Go, Forget
<1>4. head' = head /\ tail' = tail /\ free' = free /\ enq' = enq
    BY DEF EnqueuePublish
<1>5. buffer' = [buffer EXCEPT ![CellOf(k)].seq = k + 1]
    BY Zenon DEF EnqueuePublish, CellOf
<1>6. CellOf(k) \in 0 .. Capacity - 1
    BY <1>1, CellOfType
<1> HIDE DEF k
<1>7. QTypeOK'
    <2>1. buffer' \in [0 .. Capacity - 1 -> [seq : Nat, data : Slots \union {NoSlot}]]
        <3>1. k + 1 \in Nat  BY <1>1
        <3>2. \A n \in Nat : [buffer EXCEPT ![CellOf(k)].seq = n] \in
                  [0 .. Capacity - 1 -> [seq : Nat, data : Slots \union {NoSlot}]]
            BY <1>6 DEF QTypeOK
        <3> QED  BY <1>5, <3>1, <3>2, Zenon
    <2>2. pc' \in [Threads -> {"idle", "look", "claim", "write", "publish",
                              "read", "release", "use"}]
        BY Roles DEF QTypeOK, EnqueuePublish, Go
    <2>3. pos' \in [Threads -> Nat] /\ item' \in [Threads -> Slots \union {NoSlot}]
        BY Roles DEF QTypeOK, EnqueuePublish, Forget
    <2> QED  BY <1>4, <2>1, <2>2, <2>3 DEF QTypeOK
<1>8. \A q \in Nat : SeqAt(q)' = IF CellOf(q) = CellOf(k) THEN k + 1 ELSE SeqAt(q)
    BY <1>5, <1>6, CellOfType DEF QTypeOK, SeqAt
<1>9. \A q \in Nat : DataAt(q)' = DataAt(q)
    BY <1>5, <1>6, CellOfType DEF QTypeOK, DataAt
<1>10. \A q \in head .. head + Capacity - 1 : q # k => CellOf(q) # CellOf(k)
    BY <1>1, CellOfDiffers, MPMCCapacity
<1>11. pos \in [Threads -> Nat]
    BY DEF QTypeOK
<1>12. SeqAt(tail) = tail => tail < head + Capacity
    <2> SUFFICES ASSUME tail = head + Capacity, SeqAt(tail) = tail PROVE FALSE
        BY <1>1, MPMCCapacity
    <2>1. SeqAt(head) = tail
        BY <1>1, CellOfNextTurn DEF SeqAt
    <2>2. SeqAt(head) \in {head, head + 1}
        BY <1>1 DEF TurnInv
    <2>3. Capacity = 1
        BY <1>1, <2>1, <2>2, MPMCCapacity
    <2>4. k = head
        BY <1>1, <2>3
    <2> QED  BY <1>1, <1>2, <2>1, <2>3, <2>4
<1> USE DEF OthersSame, Writing, Reading
<1>13. LocalInv'
    BY <1>1, <1>3, <1>4, Roles DEF LocalInv
<1>14. \A o \in Producers : Writing(o)' => o # p /\ Writing(o) /\ pos'[o] = pos[o]
    BY <1>3, Roles
<1>15. \A o \in Producers : Writing(o) /\ o # p => Writing(o)' /\ pos'[o] = pos[o]
    BY <1>3, Roles
<1>16. \A o \in Producers : Writing(o) /\ o # p => pos[o] # k
    BY <1>1 DEF WriterInv, k
<1>17. \A c \in Consumers : pc'[c] = pc[c] /\ pos'[c] = pos[c] /\ item'[c] = item[c]
    BY <1>3, Roles
<1>18. TurnInv'
    <2>1. \A q \in head .. tail - 1 :
             \/ SeqAt(q)' = q + 1 /\ DataAt(q)' = enq[q + 1]
             \/ SeqAt(q)' = q /\ \E o \in Producers : Writing(o)' /\ pos'[o] = q
        <3> SUFFICES ASSUME NEW q \in head .. tail - 1
                     PROVE  \/ SeqAt(q)' = q + 1 /\ DataAt(q)' = enq[q + 1]
                            \/ SeqAt(q)' = q /\ \E o \in Producers : Writing(o)' /\ pos'[o] = q
            OBVIOUS
        <3>1. q \in Nat /\ DataAt(q)' = DataAt(q)
            BY <1>1, <1>9
        <3>2. CASE q = k
            BY <1>2, <1>8, <3>1, <3>2
        <3>3. CASE q # k
            <4>1. SeqAt(q)' = SeqAt(q)
                BY <1>1, <1>8, <1>10, <3>1, <3>3, MPMCCapacity
            <4>2. \A o \in Producers : Writing(o) /\ pos[o] = q => o # p
                BY <3>3 DEF k
            <4> QED  BY <1>15, <3>1, <4>1, <4>2 DEF TurnInv
        <3> QED  BY <3>2, <3>3
    <2>2. \A r \in tail .. head + Capacity - 1 : SeqAt(r)' = SeqAt(r)
        BY <1>1, <1>8, <1>10, MPMCCapacity
    <2>3. \A r \in tail .. head + Capacity - 1 :
             \/ SeqAt(r)' = r
             \/ /\ SeqAt(r)' = r - Capacity + 1
                /\ \E c \in Consumers : Reading(c)' /\ pos'[c] = r - Capacity
        BY <1>17, <2>2 DEF TurnInv
    <2>4. \A q \in 0 .. head - 1 : SeqAt(q)' > q
        BY <1>1, <1>8 DEF TurnInv
    <2> QED  BY <1>4, <2>1, <2>3, <2>4 DEF TurnInv
<1>19. WriterInv'
    <2>1. \A o \in Producers : Writing(o) /\ o # p =>
              SeqAt(pos[o])' = SeqAt(pos[o]) /\ DataAt(pos[o])' = DataAt(pos[o])
        <3> SUFFICES ASSUME NEW o \in Producers, Writing(o), o # p
                     PROVE  SeqAt(pos[o])' = SeqAt(pos[o]) /\ DataAt(pos[o])' = DataAt(pos[o])
            OBVIOUS
        <3>1. /\ pos[o] \in Nat /\ pos[o] \in head .. head + Capacity - 1
              /\ pos[o] # k /\ pos'[o] = pos[o]
            BY <1>1, <1>11, <1>15, <1>16, Roles, MPMCCapacity DEF WriterInv
        <3> QED  BY <1>8, <1>9, <1>10, <3>1
    <2>2. SeqAt(tail) = tail => SeqAt(tail)' = tail
        <3> SUFFICES ASSUME SeqAt(tail) = tail PROVE SeqAt(tail)' = tail  OBVIOUS
        <3>1. tail \in head .. head + Capacity - 1 /\ tail # k
            BY <1>1, <1>12, MPMCCapacity
        <3> QED  BY <1>1, <1>4, <1>8, <1>10, <3>1
    <2> QED  BY <1>1, <1>3, <1>4, <1>14, <2>1, <2>2, Roles DEF WriterInv
<1>20. ReaderInv'
    <2>1. \A c \in Consumers : Reading(c) =>
              SeqAt(pos[c])' = SeqAt(pos[c]) /\ DataAt(pos[c])' = DataAt(pos[c])
        <3> SUFFICES ASSUME NEW c \in Consumers, Reading(c)
                     PROVE  SeqAt(pos[c])' = SeqAt(pos[c]) /\ DataAt(pos[c])' = DataAt(pos[c])
            OBVIOUS
        <3>1. /\ pos[c] \in Nat /\ pos[c] < head /\ tail <= pos[c] + Capacity
              /\ pos'[c] = pos[c]
            BY <1>11, <1>17, Roles DEF ReaderInv
        <3>2. CellOf(pos[c]) # CellOf(k)
            BY <1>1, <3>1, CellOfDiffers, MPMCCapacity
        <3> QED  BY <1>8, <1>9, <3>1, <3>2
    <2>2. SeqAt(head) = head + 1 => SeqAt(head)' = head + 1
        <3> SUFFICES ASSUME SeqAt(head) = head + 1 PROVE SeqAt(head)' = head + 1  OBVIOUS
        <3>1. head \in head .. head + Capacity - 1 /\ head # k
            BY <1>1, <1>2, MPMCCapacity
        <3> QED  BY <1>1, <1>4, <1>8, <1>10, <3>1
    <2> QED  BY <1>4, <1>17, <2>1, <2>2 DEF ReaderInv
<1>21. \A q : Live(q)' <=> Live(q)
    BY <1>4, <1>17, Roles DEF Live
<1>22. OwnInv'
    BY <1>3, <1>4, <1>21, Roles DEF OwnInv
<1> QED  BY <1>7, <1>13, <1>18, <1>19, <1>20, <1>22

-----------------------------------------------------------------------------
\* When the cell of head_ has the consumer's turn, it holds a pointer.
LEMMA PointerToClaim ==
    ASSUME IInv, SeqAt(head) = head + 1
    PROVE  head < tail /\ DataAt(head) = enq[head + 1]
<1>1. head \in Nat /\ tail \in Nat /\ head <= tail /\ tail <= head + Capacity
    BY DEF IInv, QTypeOK, TurnInv
<1>2. head < tail
    <2> SUFFICES ASSUME head = tail PROVE FALSE  BY <1>1
    <2>1. head \in tail .. head + Capacity - 1
        BY <1>1, MPMCCapacity
    <2>2. SeqAt(head) = head \/ SeqAt(head) = head - Capacity + 1
        BY <2>1 DEF IInv, TurnInv
    <2> QED  BY <1>1, <2>2, MPMCCapacity
<1>3. head \in head .. tail - 1
    BY <1>1, <1>2
<1>4. SeqAt(head) # head
    BY <1>1
<1> QED  BY <1>2, <1>3, <1>4 DEF IInv, TurnInv

\* The exchange of dequeue() when it succeeds.
DequeueMove(c) ==
    /\ head = pos[c]
    /\ Go(c, "claim", "read")
    /\ head' = head + 1
    /\ UNCHANGED <<buffer, tail, free, pos, item, enq>>

\* A consumer moves head_ over the cell whose turn it saw.
LEMMA DequeueMoveIInv ==
    ASSUME IInv, NEW c \in Consumers, DequeueMove(c)
    PROVE  IInv'
<1> USE DEF IInv
<1>1. /\ head \in Nat /\ tail \in Nat /\ tail <= head + Capacity
      /\ pc[c] = "claim" /\ pos[c] = head
    BY DEF QTypeOK, TurnInv, DequeueMove, Go
<1>2. SeqAt(head) = head + 1
    BY <1>1 DEF ReaderInv
<1>3. head < tail /\ DataAt(head) = enq[head + 1]
    BY <1>2, PointerToClaim
<1>4. OthersSame(c) /\ pc'[c] = "read" /\ pos' = pos /\ item' = item
    BY Roles DEF QTypeOK, OthersSame, DequeueMove, Go
<1>5. head' = head + 1 /\ tail' = tail /\ free' = free /\ enq' = enq
    BY DEF DequeueMove
<1>6. \A q : SeqAt(q)' = SeqAt(q) /\ DataAt(q)' = DataAt(q)
    BY DEF SeqAt, DataAt, DequeueMove
<1>7. QTypeOK'
    BY <1>1, Roles DEF QTypeOK, DequeueMove, Go
<1>8. pos \in [Threads -> Nat]
    BY DEF QTypeOK
<1> USE DEF OthersSame, Writing, Reading
<1>9. LocalInv'
    <2>1. \A o \in Consumers : pos'[o] <= head'
        BY <1>1, <1>4, <1>5, <1>8, Roles DEF LocalInv
    <2> QED  BY <1>4, <1>5, <2>1, Roles DEF LocalInv
<1>10. TurnInv'
    <2>1. \A q \in head + 1 .. tail - 1 :
             \/ SeqAt(q)' = q + 1 /\ DataAt(q)' = enq[q + 1]
             \/ SeqAt(q)' = q /\ \E o \in Producers : Writing(o)' /\ pos[o] = q
        BY <1>1, <1>4, <1>6, Roles DEF TurnInv
    <2>2. \A r \in tail .. head + Capacity :
             \/ SeqAt(r)' = r
             \/ /\ SeqAt(r)' = r - Capacity + 1
                /\ \E o \in Consumers : Reading(o)' /\ pos[o] = r - Capacity
        <3> SUFFICES ASSUME NEW r \in tail .. head + Capacity
                     PROVE  \/ SeqAt(r) = r
                            \/ /\ SeqAt(r) = r - Capacity + 1
                               /\ \E o \in Consumers : Reading(o)' /\ pos[o] = r - Capacity
            BY <1>6
        <3>1. CASE r = head + Capacity
            <4>1. SeqAt(r) = SeqAt(head)
                BY <1>1, <3>1, CellOfNextTurn DEF SeqAt
            <4>2. r - Capacity = head
                BY <1>1, <3>1, MPMCCapacity
            <4> QED  BY <1>1, <1>2, <1>4, <4>1, <4>2
        <3>2. CASE r \in tail .. head + Capacity - 1
            <4>1. \A o \in Consumers : Reading(o) => Reading(o)'
                BY <1>4, Roles
            <4> QED  BY <3>2, <4>1 DEF TurnInv
        <3>3. r = head + Capacity \/ r \in tail .. head + Capacity - 1
            BY <1>1, MPMCCapacity
        <3> QED  BY <3>1, <3>2, <3>3, Zenon
    <2>3. \A q \in 0 .. head : SeqAt(q)' > q
        BY <1>1, <1>2, <1>6 DEF TurnInv
    <2>4. head' <= tail /\ tail <= head' + Capacity /\ head' - 1 = head
          /\ head' + Capacity - 1 = head + Capacity
        BY <1>1, <1>3, <1>5, MPMCCapacity
    <2> QED  BY <1>4, <1>5, <2>1, <2>2, <2>3, <2>4 DEF TurnInv
<1>11. WriterInv'
    <2>1. \A o \in Producers : Writing(o) => head + 1 <= pos[o]
        BY <1>1, <1>2, <1>8, Roles DEF WriterInv
    <2> QED  BY <1>4, <1>5, <1>6, <2>1, Roles DEF WriterInv
<1>12. ReaderInv'
    <2>1. \A o \in Consumers : (Reading(o) \/ pc[o] = "use") => pos[o] < head /\ o # c
        BY <1>1 DEF ReaderInv
    <2>2. \A o \in Consumers : pc'[o] = "claim" => pos'[o] # head'
        BY <1>1, <1>4, <1>5, <1>8, Roles DEF LocalInv
    <2>3. \A o \in Consumers : o # c => pc'[o] = pc[o]
        BY <1>4, Roles
    <2>4. \A o \in Consumers : Reading(o)' =>
              /\ pos[o] < head' /\ tail <= pos[o] + Capacity
              /\ SeqAt(pos[o])' = pos[o] + 1
        BY <1>1, <1>2, <1>4, <1>5, <1>6, <1>8, <2>3, Roles, MPMCCapacity DEF ReaderInv
    <2>5. \A o \in Consumers : pc'[o] = "read" => DataAt(pos[o])' = enq[pos[o] + 1]
        BY <1>1, <1>3, <1>4, <1>6, <2>3 DEF ReaderInv
    <2>6. \A o \in Consumers : pc'[o] \in {"release", "use"} =>
              pos[o] < head' /\ item[o] = enq[pos[o] + 1]
        BY <1>1, <1>4, <1>5, <1>8, <2>3, Roles DEF ReaderInv
    <2>7. \A o, u \in Consumers :
              /\ Reading(o)' \/ pc'[o] = "use"
              /\ Reading(u)' \/ pc'[u] = "use"
              /\ pos[o] = pos[u]
              => o = u
        BY <1>1, <1>8, <2>1, <2>3, Roles DEF ReaderInv
    <2> QED  BY <1>4, <1>5, <2>2, <2>4, <2>5, <2>6, <2>7 DEF ReaderInv
<1>13. \A q : Live(q)' <=> Live(q)
    BY <1>1, <1>3, <1>4, <1>5, Roles DEF Live
<1>14. OwnInv'
    BY <1>4, <1>5, <1>13, Roles DEF OwnInv
<1> QED  BY <1>7, <1>9, <1>10, <1>11, <1>12, <1>14

\* value = cell->data: it is the pointer of the position.
LEMMA DequeueReadIInv ==
    ASSUME IInv, NEW c \in Consumers, DequeueRead(c)
    PROVE  IInv'
<1> USE DEF IInv
<1>1. pc[c] = "read" /\ DataAt(pos[c]) = enq[pos[c] + 1] /\ pos[c] < head
    BY DEF DequeueRead, Go, ReaderInv, Reading
<1>2. item' = [item EXCEPT ![c] = DataAt(pos[c])]
    BY Zenon DEF DequeueRead, Cell, DataAt, CellOf
<1>3. /\ OthersSame(c) /\ pc'[c] = "release" /\ pos' = pos
      /\ item'[c] = enq[pos[c] + 1]
    BY <1>1, <1>2, Roles DEF QTypeOK, OthersSame, DequeueRead, Go
<1>4. UNCHANGED <<buffer, head, tail, free, enq>>
    BY DEF DequeueRead
<1>5. QTypeOK'
    <2>1. pos[c] \in Nat /\ CellOf(pos[c]) \in 0 .. Capacity - 1
        BY CellOfType, Roles DEF QTypeOK
    <2>2. DataAt(pos[c]) \in Slots \union {NoSlot}
        BY <2>1 DEF QTypeOK, DataAt
    <2>3. item' \in [Threads -> Slots \union {NoSlot}]
        BY <1>2, <2>2, Roles DEF QTypeOK
    <2>4. pc' \in [Threads -> {"idle", "look", "claim", "write", "publish",
                              "read", "release", "use"}]
        BY Roles DEF QTypeOK, DequeueRead, Go
    <2> QED  BY <1>3, <1>4, <2>3, <2>4 DEF QTypeOK
<1> USE DEF OthersSame, SeqAt, DataAt, Writing, Reading
<1>6. LocalInv'
    BY <1>3, <1>4, Roles DEF LocalInv
<1>7. TurnInv'
    BY <1>1, <1>3, <1>4, Roles DEF TurnInv
<1>8. WriterInv'
    BY <1>3, <1>4, Roles DEF WriterInv
<1>9. ReaderInv'
    BY <1>1, <1>3, <1>4, Roles DEF ReaderInv
<1>10. \A q : Live(q)' <=> Live(q)
    BY <1>1, <1>3, <1>4, Roles DEF Live
<1>11. OwnInv'
    BY <1>3, <1>4, <1>10, Roles DEF OwnInv
<1> QED  BY <1>5, <1>6, <1>7, <1>8, <1>9, <1>11

\* cell->seq.store(pos + capacity_): the turn passes to the next producer.
LEMMA DequeueReleaseIInv ==
    ASSUME Capacity > 1, IInv, NEW c \in Consumers, DequeueRelease(c)
    PROVE  IInv'
<1> USE DEF IInv
<1> DEFINE k == pos[c]
<1>1. /\ k \in Nat /\ head \in Nat /\ tail \in Nat /\ k < head /\ head <= tail
      /\ tail <= k + Capacity /\ tail <= head + Capacity /\ pc[c] = "release"
      /\ SeqAt(k) = k + 1
    BY Roles DEF QTypeOK, TurnInv, ReaderInv, DequeueRelease, Go, Reading
<1>2. OthersSame(c) /\ pc'[c] = "use" /\ pos' = pos /\ item' = item
    BY Roles DEF QTypeOK, OthersSame, DequeueRelease, Go
<1>3. head' = head /\ tail' = tail /\ free' = free /\ enq' = enq
    BY DEF DequeueRelease
<1>4. buffer' = [buffer EXCEPT ![CellOf(k)].seq = k + Capacity]
    BY Zenon DEF DequeueRelease, CellOf
<1>5. CellOf(k) \in 0 .. Capacity - 1
    BY <1>1, CellOfType
<1> HIDE DEF k
<1>6. QTypeOK'
    <2>1. buffer' \in [0 .. Capacity - 1 -> [seq : Nat, data : Slots \union {NoSlot}]]
        <3>1. k + Capacity \in Nat  BY <1>1, MPMCCapacity
        <3>2. \A n \in Nat : [buffer EXCEPT ![CellOf(k)].seq = n] \in
                  [0 .. Capacity - 1 -> [seq : Nat, data : Slots \union {NoSlot}]]
            BY <1>5 DEF QTypeOK
        <3> QED  BY <1>4, <3>1, <3>2, Zenon
    <2>2. pc' \in [Threads -> {"idle", "look", "claim", "write", "publish",
                              "read", "release", "use"}]
        BY Roles DEF QTypeOK, DequeueRelease, Go
    <2> QED  BY <1>2, <1>3, <2>1, <2>2 DEF QTypeOK
<1>7. \A q \in Nat : SeqAt(q)' = IF CellOf(q) = CellOf(k) THEN k + Capacity ELSE SeqAt(q)
    BY <1>4, <1>5, CellOfType DEF QTypeOK, SeqAt
<1>8. \A q \in Nat : DataAt(q)' = DataAt(q)
    BY <1>4, <1>5, CellOfType DEF QTypeOK, DataAt
<1>9. pos \in [Threads -> Nat]
    BY DEF QTypeOK
<1>10. \A q \in k + 1 .. k + Capacity - 1 : CellOf(q) # CellOf(k)
    BY <1>1, CellOfDiffers, MPMCCapacity
<1>11. \A o \in Consumers : Reading(o) /\ o # c => pos[o] # k
    BY <1>1 DEF ReaderInv, Reading, k
<1> USE DEF OthersSame, Writing, Reading
<1>12. LocalInv'
    BY <1>2, <1>3, Roles DEF LocalInv
<1>13. TurnInv'
    <2>1. \A q \in head .. tail - 1 : SeqAt(q)' = SeqAt(q) /\ DataAt(q)' = DataAt(q)
        BY <1>1, <1>7, <1>8, <1>10, MPMCCapacity
    <2>2. \A q \in head .. tail - 1 :
             \/ SeqAt(q)' = q + 1 /\ DataAt(q)' = enq[q + 1]
             \/ SeqAt(q)' = q /\ \E o \in Producers : Writing(o)' /\ pos[o] = q
        BY <1>2, <2>1, Roles DEF TurnInv
    <2>3. \A r \in tail .. head + Capacity - 1 :
             \/ SeqAt(r)' = r
             \/ /\ SeqAt(r)' = r - Capacity + 1
                /\ \E o \in Consumers : Reading(o)' /\ pos[o] = r - Capacity
        <3> SUFFICES ASSUME NEW r \in tail .. head + Capacity - 1
                     PROVE  \/ SeqAt(r)' = r
                            \/ /\ SeqAt(r)' = r - Capacity + 1
                               /\ \E o \in Consumers : Reading(o)' /\ pos[o] = r - Capacity
            OBVIOUS
        <3>1. CASE r = k + Capacity
            BY <1>1, <1>7, <3>1, CellOfNextTurn, MPMCCapacity
        <3>2. CASE r # k + Capacity
            <4>1. r \in Nat /\ CellOf(r) # CellOf(k)
                <5>1. CASE r < k + Capacity
                    BY <1>1, <1>10, <5>1, MPMCCapacity
                <5>2. CASE r > k + Capacity
                    <6>1. /\ k + Capacity \in Nat /\ r \in Nat
                          /\ r - (k + Capacity) < Capacity
                        BY <1>1, <5>2, MPMCCapacity
                    <6>2. CellOf(k + Capacity) # CellOf(r)
                        BY <5>2, <6>1, CellOfDiffers
                    <6> QED  BY <1>1, <6>1, <6>2, CellOfNextTurn
                <5> QED  BY <1>1, <3>2, <5>1, <5>2, MPMCCapacity
            <4>2. SeqAt(r)' = SeqAt(r)
                BY <1>7, <4>1
            <4>3. \A o \in Consumers : Reading(o) /\ pos[o] = r - Capacity => o # c
                BY <1>1, <3>2, <4>1, MPMCCapacity DEF k
            <4>4. \A o \in Consumers : Reading(o) /\ o # c => Reading(o)'
                BY <1>2, Roles
            <4> QED  BY <4>2, <4>3, <4>4 DEF TurnInv
        <3> QED  BY <3>1, <3>2
    <2>4. \A q \in 0 .. head - 1 : SeqAt(q)' > q
        BY <1>1, <1>7, MPMCCapacity DEF TurnInv
    <2> QED  BY <1>2, <1>3, <2>2, <2>3, <2>4 DEF TurnInv
<1>14. WriterInv'
    <2>1. \A o \in Producers : Writing(o) =>
              SeqAt(pos[o])' = SeqAt(pos[o]) /\ DataAt(pos[o])' = DataAt(pos[o])
        <3> SUFFICES ASSUME NEW o \in Producers, Writing(o)
                     PROVE  SeqAt(pos[o])' = SeqAt(pos[o]) /\ DataAt(pos[o])' = DataAt(pos[o])
            OBVIOUS
        <3>1. pos[o] \in Nat /\ pos[o] \in k + 1 .. k + Capacity - 1
            BY <1>1, <1>9, Roles, MPMCCapacity DEF WriterInv
        <3> QED  BY <1>2, <1>7, <1>8, <1>10, <3>1
    <2>2. SeqAt(tail) = tail => SeqAt(tail)' = tail
        <3> SUFFICES ASSUME SeqAt(tail) = tail PROVE SeqAt(tail)' = tail  OBVIOUS
        <3>1. Reading(c)
            BY <1>1
        <3>2. tail < k + Capacity
            BY <3>1, RoomToClaim DEF k
        <3>3. tail \in k + 1 .. k + Capacity - 1
            BY <1>1, <3>2, MPMCCapacity
        <3> QED  BY <1>1, <1>3, <1>7, <1>10, <3>3
    <2> QED  BY <1>2, <1>3, <2>1, <2>2, Roles DEF WriterInv
<1>15. ReaderInv'
    <2>1. \A o \in Consumers : Reading(o) /\ o # c =>
              SeqAt(pos[o])' = SeqAt(pos[o]) /\ DataAt(pos[o])' = DataAt(pos[o])
        <3> SUFFICES ASSUME NEW o \in Consumers, Reading(o), o # c
                     PROVE  SeqAt(pos[o])' = SeqAt(pos[o]) /\ DataAt(pos[o])' = DataAt(pos[o])
            OBVIOUS
        <3>1. /\ pos[o] \in Nat /\ pos[o] < head /\ tail <= pos[o] + Capacity
              /\ pos[o] # k
            BY <1>9, <1>11, Roles DEF ReaderInv
        <3>2. CellOf(pos[o]) # CellOf(k)
            BY <1>1, <3>1, CellOfDiffers, MPMCCapacity
        <3> QED  BY <1>2, <1>7, <1>8, <3>1, <3>2
    <2>2. SeqAt(head) = head + 1 => SeqAt(head)' = head + 1
        <3> SUFFICES ASSUME SeqAt(head) = head + 1 PROVE SeqAt(head)' = head + 1  OBVIOUS
        <3>1. head < tail
            BY PointerToClaim
        <3>2. head \in k + 1 .. k + Capacity - 1
            BY <1>1, <3>1, MPMCCapacity
        <3> QED  BY <1>1, <1>3, <1>7, <1>10, <3>2
    <2>3. \A o \in Consumers : o # c => pc'[o] = pc[o]
        BY <1>2, Roles
    <2> QED  BY <1>1, <1>2, <1>3, <2>1, <2>2, <2>3 DEF ReaderInv, k
<1>16. \A q : Live(q)' <=> Live(q)
    BY <1>1, <1>2, <1>3, Roles DEF Live
<1>17. OwnInv'
    BY <1>2, <1>3, <1>16, Roles DEF OwnInv
<1> QED  BY <1>6, <1>12, <1>13, <1>14, <1>15, <1>17

\* The buffer goes back to the pool.
LEMMA DeallocateIInv ==
    ASSUME IInv, NEW c \in Consumers, Deallocate(c)
    PROVE  IInv'
<1> USE DEF IInv
<1> DEFINE k == pos[c]
<1>1. /\ k \in Nat /\ k < head /\ head <= tail /\ pc[c] = "use"
      /\ item[c] = enq[k + 1] /\ head \in Nat /\ tail \in Nat
    BY Roles DEF QTypeOK, TurnInv, ReaderInv, Deallocate, Go
<1>2. OthersSame(c) /\ pc'[c] = "idle" /\ pos'[c] = 0
    BY Roles DEF QTypeOK, OthersSame, Deallocate, Go, Forget
<1>3. head' = head /\ tail' = tail /\ enq' = enq /\ free' = free \union {enq[k + 1]}
    BY <1>1 DEF Deallocate
<1>4. \A q : SeqAt(q)' = SeqAt(q) /\ DataAt(q)' = DataAt(q)
    BY DEF SeqAt, DataAt, Deallocate
<1>5. enq[k + 1] \in Slots
    BY <1>1, ElementOfSeq DEF QTypeOK, LocalInv
<1>6. QTypeOK'
    <2>1. pc' \in [Threads -> {"idle", "look", "claim", "write", "publish",
                              "read", "release", "use"}]
        BY Roles DEF QTypeOK, Deallocate, Go
    <2>2. pos' \in [Threads -> Nat] /\ item' \in [Threads -> Slots \union {NoSlot}]
        BY Roles DEF QTypeOK, Deallocate, Forget
    <2> QED  BY <1>3, <1>5, <2>1, <2>2 DEF QTypeOK, Deallocate
<1> USE DEF OthersSame, Writing, Reading
<1>7. LocalInv'
    BY <1>1, <1>2, <1>3, Roles DEF LocalInv
<1>8. TurnInv'
    BY <1>1, <1>2, <1>3, <1>4, Roles DEF TurnInv
<1>9. WriterInv'
    BY <1>2, <1>3, <1>4, Roles DEF WriterInv
<1>10. ReaderInv'
    BY <1>2, <1>3, <1>4, Roles DEF ReaderInv
<1>11. Live(k) /\ k \in 0 .. tail - 1
    BY <1>1 DEF Live
<1>12. \A q : Live(q)' => Live(q) /\ q # k
    BY <1>1, <1>2, <1>3, Roles DEF Live, ReaderInv
<1> HIDE DEF k
<1>13. OwnInv'
    <2>1. \A q \in 0 .. tail - 1 : Live(q)' => enq[q + 1] \notin free'
        BY <1>3, <1>11, <1>12 DEF OwnInv
    <2>2. \A o \in Producers : pc[o] \in {"look", "claim"} => item[o] \notin free'
        BY <1>3, <1>11 DEF OwnInv
    <2>3. \A o \in Producers : pc'[o] = pc[o] /\ item'[o] = item[o]
        BY <1>2, Roles
    <2> QED  BY <1>3, <1>12, <2>1, <2>2, <2>3 DEF OwnInv
<1> QED  BY <1>6, <1>7, <1>8, <1>9, <1>10, <1>13

-----------------------------------------------------------------------------
\* Every step of every thread keeps the invariant.
LEMMA StepIInv ==
    ASSUME Capacity > 1
    PROVE  IInv /\ [QNext]_qvars => IInv'
<1> SUFFICES ASSUME IInv, [QNext]_qvars PROVE IInv'  OBVIOUS
<1>1. ASSUME NEW p \in Producers, ProducerStep(p) PROVE IInv'
    <2>1. CASE EnqueueLoad(p)  BY <2>1, EnqueueLoadIInv
    <2>2. CASE EnqueueLook(p)  BY <2>2, EnqueueLookIInv
    <2>3. CASE EnqueueClaim(p)
        BY <2>3, EnqueueMoveIInv, EnqueueRetryIInv DEF EnqueueClaim, EnqueueMove
    <2>4. CASE EnqueueWrite(p)  BY <2>4, EnqueueWriteIInv
    <2>5. CASE EnqueuePublish(p)  BY <2>5, EnqueuePublishIInv
    <2> QED  BY <1>1, <2>1, <2>2, <2>3, <2>4, <2>5 DEF ProducerStep
<1>2. ASSUME NEW c \in Consumers, ConsumerStep(c) PROVE IInv'
    <2>1. CASE DequeueLoad(c)  BY <2>1, DequeueLoadIInv
    <2>2. CASE DequeueLook(c)  BY <2>2, DequeueLookIInv
    <2>3. CASE DequeueClaim(c)
        BY <2>3, DequeueMoveIInv, DequeueRetryIInv DEF DequeueClaim, DequeueMove
    <2>4. CASE DequeueRead(c)  BY <2>4, DequeueReadIInv
    <2>5. CASE DequeueRelease(c)  BY <2>5, DequeueReleaseIInv
    <2>6. CASE Deallocate(c)  BY <2>6, DeallocateIInv
    <2> QED  BY <1>2, <2>1, <2>2, <2>3, <2>4, <2>5, <2>6 DEF ConsumerStep
<1>3. CASE UNCHANGED qvars
    BY <1>3 DEF qvars, IInv, QTypeOK, LocalInv, TurnInv, WriterInv, ReaderInv,
                OwnInv, Live, SeqAt, DataAt, Writing, Reading
<1> QED  BY <1>1, <1>2, <1>3 DEF QNext

\* The invariant holds of every behaviour of the queue.
LEMMA QSpecIInv ==
    ASSUME Capacity > 1
    PROVE  QSpec => []IInv
BY InitIInv, StepIInv, PTL DEF QSpec

\* What the cells, the positions and the locals of the threads can be.
THEOREM MPMCTypeOK ==
    ASSUME Capacity > 1
    PROVE  QSpec => []QTypeOK
<1>1. IInv => QTypeOK
    BY DEF IInv
<1> QED  BY <1>1, QSpecIInv, PTL

\* However many threads are between their exchange and their store of seq, no two
\* of them, of whatever kind, are at the same cell.
THEOREM MPMCCellsExclusive ==
    ASSUME Capacity > 1
    PROVE  QSpec => []CellsExclusive
<1>1. IInv => CellsExclusive
    <2> SUFFICES ASSUME IInv, NEW t \in Threads, NEW u \in Threads, t # u,
                        Claimed(t), Claimed(u)
                 PROVE  CellOf(pos[t]) # CellOf(pos[u])
        BY Zenon DEF CellsExclusive, CellOf
    <2>1. /\ pos[t] \in Nat /\ pos[u] \in Nat /\ head \in Nat /\ tail \in Nat
          /\ head <= tail /\ tail <= head + Capacity
        BY DEF IInv, QTypeOK, TurnInv
    <2>2. ASSUME NEW p \in Producers, Claimed(p)
          PROVE  Writing(p) /\ head <= pos[p] /\ pos[p] < tail
        BY <2>2 DEF IInv, LocalInv, WriterInv, Writing, Claimed
    <2>3. ASSUME NEW c \in Consumers, Claimed(c)
          PROVE  Reading(c) /\ pos[c] < head /\ tail <= pos[c] + Capacity
        BY <2>3 DEF IInv, LocalInv, ReaderInv, Reading, Claimed
    <2>4. CASE t \in Producers /\ u \in Producers
        <3>1. pos[t] # pos[u]
            BY <2>2, <2>4 DEF IInv, WriterInv
        <3> QED  BY <2>1, <2>2, <2>4, <3>1, CellOfDiffers, MPMCCapacity
    <2>5. CASE t \in Consumers /\ u \in Consumers
        <3>1. pos[t] # pos[u]
            BY <2>3, <2>5 DEF IInv, ReaderInv
        <3> QED  BY <2>1, <2>3, <2>5, <3>1, CellOfDiffers, MPMCCapacity
    <2>6. CASE t \in Producers /\ u \in Consumers
        BY <2>1, <2>2, <2>3, <2>6, CellOfDiffers, MPMCCapacity
    <2>7. CASE t \in Consumers /\ u \in Producers
        BY <2>1, <2>2, <2>3, <2>7, CellOfDiffers, MPMCCapacity
    <2> QED  BY <2>4, <2>5, <2>6, <2>7 DEF Threads
<1> QED  BY <1>1, QSpecIInv, PTL

\* A consumer gets the pointer that was enqueued at the position it claimed.
THEOREM MPMCReadsItsPosition ==
    ASSUME Capacity > 1
    PROVE  QSpec => []ReadsItsPosition
<1>1. IInv => ReadsItsPosition
    BY DEF IInv, ReaderInv, ReadsItsPosition
<1> QED  BY <1>1, QSpecIInv, PTL

-----------------------------------------------------------------------------
\* The buffers of a run of live positions and of a producer before its exchange
\* are different buffers outside the pool.
LEMMA BuffersOut ==
    ASSUME IInv, NEW lo \in 0 .. tail, \A q \in lo .. tail - 1 : Live(q),
           NEW p \in Producers, pc[p] \in {"look", "claim"}
    PROVE  tail - lo + 1 <= Cardinality(Slots \ free)
<1> DEFINE n == tail - lo
           f == [i \in 1 .. n + 1 |-> IF i <= n THEN enq[lo + i] ELSE item[p]]
<1>1. tail \in Nat /\ lo \in Nat /\ n \in Nat /\ enq \in Seq(Slots) /\ Len(enq) = tail
    BY DEF IInv, QTypeOK, LocalInv
<1>2. item[p] \in Slots \ free
    BY DEF IInv, LocalInv, OwnInv
<1>3. ASSUME NEW i \in 1 .. n
      PROVE  /\ lo + i - 1 \in lo .. tail - 1 /\ lo + i - 1 \in 0 .. tail - 1
             /\ (lo + i - 1) + 1 = lo + i /\ lo + i \in 1 .. Len(enq)
    BY <1>1
<1>4. \A i \in 1 .. n : enq[lo + i] \in Slots \ free /\ enq[lo + i] # item[p]
    <2> SUFFICES ASSUME NEW i \in 1 .. n
                 PROVE  enq[lo + i] \in Slots \ free /\ enq[lo + i] # item[p]
        OBVIOUS
    <2>1. enq[lo + i] \in Slots
        BY <1>1, <1>3, ElementOfSeq
    <2>2. enq[lo + i] \notin free /\ enq[lo + i] # item[p]
        BY <1>3 DEF IInv, OwnInv
    <2> QED  BY <2>1, <2>2
<1>5. \A i, j \in 1 .. n : enq[lo + i] = enq[lo + j] => i = j
    <2> SUFFICES ASSUME NEW i \in 1 .. n, NEW j \in 1 .. n, enq[lo + i] = enq[lo + j]
                 PROVE  i = j
        OBVIOUS
    <2>1. lo + i - 1 = lo + j - 1
        BY <1>3 DEF IInv, OwnInv
    <2> QED  BY <1>1, <2>1
<1> HIDE DEF n
<1>6. f \in Injection(1 .. n + 1, Slots \ free)
    <2>1. f \in [1 .. n + 1 -> Slots \ free]
        <3>1. \A i \in 1 .. n + 1 :
                  (IF i <= n THEN enq[lo + i] ELSE item[p]) \in Slots \ free
            BY <1>1, <1>2, <1>4
        <3> QED  BY <3>1
    <2>2. ASSUME NEW a \in 1 .. n + 1, NEW b \in 1 .. n + 1, f[a] = f[b]
          PROVE  a = b
        <3>1. CASE a <= n /\ b <= n  BY <1>1, <1>5, <2>2, <3>1
        <3>2. CASE ~ (a <= n /\ b <= n)  BY <1>1, <1>4, <2>2, <3>2
        <3> QED  BY <3>1, <3>2
    <2> QED  BY <2>1, <2>2 DEF Injection, IsInjective
<1>7. IsFiniteSet(Slots \ free)
    <2>1. Slots \ free \in SUBSET Slots  OBVIOUS
    <2> QED  BY <2>1, MPMCSlots, FS_Subset
<1>8. Cardinality(1 .. n + 1) <= Cardinality(Slots \ free)
    BY <1>6, <1>7, FS_Injection
<1>9. Cardinality(1 .. n + 1) = n + 1
    BY <1>1, FS_Interval
<1> QED  BY <1>8, <1>9 DEF n

\* enqueue() returns false only behind a consumer that another one overtook, as
\* long as no more buffers are out than the ring has cells.
THEOREM MPMCRefusedOnlyBehindStalled ==
    ASSUME Capacity > 1
    PROVE  QSpec => []RefusedOnlyBehindStalled
<1>1. IInv => RefusedOnlyBehindStalled
    <2> SUFFICES ASSUME IInv, NEW p \in Producers,
                        Cardinality(Slots \ free) <= Capacity,
                        pc[p] = "look", SeqAt(pos[p]) < pos[p]
                 PROVE  \E c \in Consumers : /\ Reading(c)
                                             /\ pos[c] = pos[p] - Capacity
                                             /\ head > pos[c] + 1
        BY Zenon DEF RefusedOnlyBehindStalled, Cell, SeqAt, CellOf, Reading
    <2>1. /\ pos[p] \in Nat /\ head \in Nat /\ tail \in Nat /\ pos[p] <= tail
          /\ head <= tail /\ tail <= head + Capacity
        BY Roles DEF IInv, QTypeOK, LocalInv, TurnInv
    <2>2. pos[p] = tail
        <3>0. SeqAt(pos[p]) \in Nat
            BY <2>1, CellOfType DEF IInv, QTypeOK, SeqAt
        <3>1. CASE pos[p] \in 0 .. head - 1
            <4>1. SeqAt(pos[p]) > pos[p]
                BY <3>1 DEF IInv, TurnInv
            <4> QED  BY <2>1, <3>0, <4>1
        <3>2. CASE pos[p] \in head .. tail - 1
            BY <2>1, <3>2 DEF IInv, TurnInv
        <3>3. pos[p] \in 0 .. head - 1 \/ pos[p] \in head .. tail - 1 \/ pos[p] = tail
            BY <2>1
        <3> QED  BY <2>1, <3>0, <3>1, <3>2, <3>3
    <2>3. Cardinality(Slots \ free) \in Nat
        <3>1. Slots \ free \in SUBSET Slots  OBVIOUS
        <3> QED  BY <3>1, MPMCSlots, FS_Subset, FS_CardinalityType
    <2>4. tail < head + Capacity
        <3>1. \A q \in head .. tail - 1 : Live(q)
            BY DEF Live
        <3>2. tail - head + 1 <= Cardinality(Slots \ free)
            BY <2>1, <3>1, BuffersOut
        <3> QED  BY <2>1, <2>3, <3>2, MPMCCapacity
    <2>5. PICK c \in Consumers : Reading(c) /\ pos[c] = tail - Capacity
        <3>1. tail \in tail .. head + Capacity - 1
            BY <2>1, <2>4, MPMCCapacity
        <3>2. SeqAt(tail) # tail
            BY <2>1, <2>2
        <3> QED  BY <3>1, <3>2 DEF IInv, TurnInv
    <2>6. pos[c] \in Nat /\ pos[c] < head
        BY <2>5, Roles DEF IInv, QTypeOK, ReaderInv
    <2>7. head # pos[c] + 1
        <3> SUFFICES ASSUME head = pos[c] + 1 PROVE FALSE  OBVIOUS
        <3>1. \A q \in pos[c] .. tail - 1 : Live(q)
            BY <2>1, <2>5, <2>6 DEF Live
        <3>2. tail - pos[c] + 1 <= Cardinality(Slots \ free)
            BY <2>1, <2>6, <3>1, BuffersOut
        <3> QED  BY <2>1, <2>3, <2>5, <2>6, <3>2, MPMCCapacity
    <2> QED  BY <2>1, <2>2, <2>5, <2>6, <2>7
<1> QED  BY <1>1, QSpecIInv, PTL

-----------------------------------------------------------------------------
\* The producer that claimed position q and has not yet published it.
WriterOf(q) == CHOOSE p \in Producers : Claimed(p) /\ pos[p] = q

\* The pointers from head_ to tail_, the queue that BoundedFifo sees.
ItemAt(k) == IF buffer[(head + k - 1) % Capacity].seq = head + k
             THEN buffer[(head + k - 1) % Capacity].data
             ELSE item[CHOOSE p \in Producers : Claimed(p) /\ pos[p] = head + k - 1]

Items == [k \in 1 .. tail - head |-> ItemAt(k)]

\* They are what is enqueued and not yet claimed.
ItemsEnqueued == IsRest(Slots, Items, enq, head)

\* The invariant says so.
LEMMA ItemsAre == IInv => ItemsEnqueued
<1> SUFFICES ASSUME IInv PROVE ItemsEnqueued  OBVIOUS
<1>1. head \in Nat /\ tail \in Nat /\ tail - head \in Nat
    BY DEF IInv, QTypeOK, TurnInv
<1>2. ASSUME NEW q \in head .. tail - 1
      PROVE  (IF SeqAt(q) = q + 1 THEN DataAt(q) ELSE item[WriterOf(q)]) = enq[q + 1]
    <2>1. CASE SeqAt(q) = q + 1
        <3>1. q + 1 # q  BY <1>1
        <3> QED  BY <2>1, <3>1 DEF IInv, TurnInv
    <2>2. CASE SeqAt(q) # q + 1
        <3>1. \E p \in Producers : Claimed(p) /\ pos[p] = q
            BY <2>2 DEF IInv, TurnInv, Writing, Claimed
        <3>2. WriterOf(q) \in Producers /\ Claimed(WriterOf(q)) /\ pos[WriterOf(q)] = q
            BY <3>1, Zenon DEF WriterOf
        <3>3. Writing(WriterOf(q))
            BY <3>2 DEF IInv, LocalInv, Claimed, Writing
        <3> QED  BY <2>2, <3>2, <3>3 DEF IInv, WriterInv
    <2> QED  BY <2>1, <2>2
<1>3. ASSUME NEW k \in 1 .. tail - head
      PROVE  ItemAt(k) = enq[head + k] /\ enq[head + k] \in Slots
    <2> DEFINE q == head + k - 1
    <2>1. q \in head .. tail - 1 /\ q + 1 = head + k
        BY <1>1
    <2>2. ItemAt(k) = IF SeqAt(q) = head + k THEN DataAt(q) ELSE item[WriterOf(q)]
        BY Zenon DEF ItemAt, SeqAt, DataAt, CellOf, WriterOf
    <2> HIDE DEF q
    <2>3. ItemAt(k) = enq[head + k]
        BY <1>2, <2>1, <2>2, Zenon
    <2>4. enq[head + k] \in Slots
        BY <1>1, ElementOfSeq DEF IInv, QTypeOK, LocalInv
    <2> QED  BY <2>3, <2>4
<1>5. Items \in [1 .. tail - head -> Slots]
    BY <1>3 DEF Items
<1>6. Items \in Seq(Slots)
    BY <1>1, <1>5, SeqDef
<1>7. Len(Items) = tail - head
    BY <1>1, <1>5, <1>6, LenProperties
<1>8. Len(enq) = tail
    BY DEF IInv, LocalInv
<1>9. \A k \in 1 .. tail - head : Items[k] = enq[head + k]
    BY <1>3 DEF Items
<1> QED  BY <1>6, <1>7, <1>8, <1>9, Zenon DEF IsRest, ItemsEnqueued

\* The same after a step.
LEMMA ItemsAreNext == IInv' => ItemsEnqueued'
BY ItemsAre, PTL

\* What the consumers have, as BoundedFifo sees it.
Held == [c \in Consumers |-> Taken(c)]

\* The consumers that have claimed a position and are not done with its pointer.
Took(c) == pc[c] \in {"read", "release", "use"}

\* What they have is the pointer enqueued at that position, also before they read
\* the cell.
TakenAre ==
    \A c \in Consumers :
        Taken(c) = IF Took(c) THEN enq[pos[c] + 1] ELSE NoSlot

\* The invariant says so.
LEMMA TakenIs == IInv => TakenAre
<1> SUFFICES ASSUME IInv, NEW c \in Consumers
             PROVE  Taken(c) = IF Took(c) THEN enq[pos[c] + 1] ELSE NoSlot
    BY DEF TakenAre
<1>1. CASE pc[c] = "read"
    <2>1. Taken(c) = DataAt(pos[c])
        BY <1>1 DEF Taken, Cell, DataAt, CellOf
    <2> QED  BY <1>1, <2>1 DEF IInv, ReaderInv, Took
<1>2. CASE pc[c] \in {"release", "use"}
    <2>1. Taken(c) = item[c]
        BY <1>2 DEF Taken
    <2> QED  BY <1>2, <2>1 DEF IInv, ReaderInv, Took
<1>3. CASE ~ Took(c)
    BY <1>3 DEF Taken, Took
<1> QED  BY <1>1, <1>2, <1>3 DEF Took

\* The same after a step.
LEMMA TakenIsNext == IInv' => TakenAre'
BY TakenIs, PTL

\* A claimed position is one that was enqueued.
LEMMA TookEnqueued ==
    ASSUME IInv, NEW c \in Consumers, Took(c)
    PROVE  pos[c] + 1 \in 1 .. Len(enq) /\ enq[pos[c] + 1] \in Slots
<1>1. pos[c] \in Nat /\ pos[c] < head /\ head \in Nat /\ head <= tail /\ Len(enq) = tail
    BY Roles DEF IInv, QTypeOK, ReaderInv, TurnInv, LocalInv, Reading, Took
<1>2. pos[c] + 1 \in 1 .. Len(enq)
    BY <1>1 DEF IInv, QTypeOK
<1> QED  BY <1>2, ElementOfSeq DEF IInv, QTypeOK

\* A step that leaves the claims and the positions of the consumers alone leaves
\* what they have.
LEMMA HeldSame ==
    ASSUME IInv, IInv',
           \A c \in Consumers : Took(c)' = Took(c) /\ (Took(c) => pos'[c] = pos[c]),
           \A k \in 1 .. Len(enq) : enq'[k] = enq[k]
    PROVE  Held' = Held
<1>1. ASSUME NEW c \in Consumers
      PROVE  Taken(c)' = Taken(c)
    <2>1. Taken(c) = IF Took(c) THEN enq[pos[c] + 1] ELSE NoSlot
        BY TakenIs DEF TakenAre
    <2>2. Taken(c)' = IF Took(c)' THEN enq'[pos'[c] + 1] ELSE NoSlot
        BY TakenIsNext DEF TakenAre
    <2>3. Took(c) => enq'[pos[c] + 1] = enq[pos[c] + 1]
        BY TookEnqueued
    <2> QED  BY <2>1, <2>2, <2>3
<1> QED  BY <1>1 DEF Held

\* One consumer's step changes what that consumer has.
LEMMA HeldOne ==
    ASSUME IInv, IInv', NEW c \in Consumers, enq' = enq,
           \A o \in Consumers \ {c} : pc'[o] = pc[o] /\ pos'[o] = pos[o]
    PROVE  Held' = [Held EXCEPT ![c] = Taken(c)']
<1>1. ASSUME NEW o \in Consumers, o # c
      PROVE  Taken(o)' = Taken(o)
    <2>1. Taken(o) = IF Took(o) THEN enq[pos[o] + 1] ELSE NoSlot
        BY TakenIs DEF TakenAre
    <2>2. Taken(o)' = IF Took(o)' THEN enq'[pos'[o] + 1] ELSE NoSlot
        BY TakenIsNext DEF TakenAre
    <2> QED  BY <1>1, <2>1, <2>2 DEF Took
<1> QED  BY <1>1 DEF Held

\* The detailed queue implements BoundedFifo for any number of threads: enqueue()
\* appends when it moves tail_; dequeue() takes the oldest pointer when it moves
\* head_ and returns that one, although cells are filled and emptied in any order.
THEOREM MPMCRefinesFifo ==
    ASSUME Capacity > 1
    PROVE  QSpec => MPMCImplementsFifo
<1>1. QInit => Fifo!FifoInit
    <2> SUFFICES ASSUME QInit
                 PROVE  Items = << >> /\ \A c \in Consumers : Taken(c) = NoSlot
        BY DEF Fifo!FifoInit, Items, ItemAt
    <2>1. Items \in Seq(Slots) /\ Len(Items) = Len(enq) - head
        BY InitIInv, ItemsAre DEF ItemsEnqueued, IsRest
    <2>2. \A c \in Consumers : pc[c] = "idle"
        BY Roles DEF QInit, Threads
    <2>3. \A c \in Consumers : Taken(c) = NoSlot
        BY <2>2 DEF Taken
    <2> QED  BY <2>1, <2>3, EmptySeq DEF QInit
<1>2. IInv /\ IInv' /\ [QNext]_qvars => [Fifo!FifoNext]_<<Items, Held>>
    <2> SUFFICES ASSUME IInv, IInv', [QNext]_qvars
                 PROVE  Fifo!FifoNext \/ (Items' = Items /\ Held' = Held)
        OBVIOUS
    <2>1. IsRest(Slots, Items, enq, head) /\ IsRest(Slots, Items', enq', head')
        BY ItemsAre, ItemsAreNext DEF ItemsEnqueued
    <2>2. enq \in Seq(Slots) /\ head \in 0 .. Len(enq) /\ Len(enq) = tail
        BY DEF IInv, QTypeOK, LocalInv, TurnInv
    <2>3. ASSUME NEW p \in Producers, EnqueueMove(p)
          PROVE  Fifo!Put
        <3>1. /\ enq' = Append(enq, item[p]) /\ head' = head /\ item[p] \in Slots
              /\ SeqAt(tail) = tail
            BY <2>3 DEF EnqueueMove, Go, IInv, LocalInv, WriterInv
        <3>2. Items' = Append(Items, item[p])
            BY <2>1, <2>2, <3>1, RestGrows
        <3>3. tail < head + Capacity
            BY <3>1, RoomToClaim
        <3>4. Len(Items) < Capacity
            BY <2>1, <2>2, <3>3, MPMCCapacity DEF IsRest
        <3>5. \A k \in 1 .. Len(enq) : enq'[k] = enq[k]
            BY <2>2, <3>1, AppendProperties
        <3>6. \A c \in Consumers : pc'[c] = pc[c] /\ pos'[c] = pos[c]
            BY <2>3, Roles DEF EnqueueMove, Go, IInv, QTypeOK
        <3>7. Held' = Held
            BY <3>5, <3>6, HeldSame DEF Took
        <3> QED  BY <3>1, <3>2, <3>4, <3>7 DEF Fifo!Put, Items, ItemAt, Held
    <2>4. ASSUME NEW c \in Consumers, DequeueMove(c)
          PROVE  Fifo!Take(c)
        <3>1. /\ enq' = enq /\ head' = head + 1 /\ SeqAt(head) = head + 1
            BY <2>4 DEF DequeueMove, Go, IInv, ReaderInv
        <3>0. /\ pc[c] = "claim" /\ pc'[c] = "read" /\ pos[c] = head /\ pos' = pos
              /\ \A o \in Consumers \ {c} : pc'[o] = pc[o]
            BY <2>4, Roles DEF DequeueMove, Go, IInv, QTypeOK
        <3>2. head < tail
            BY <3>1, PointerToClaim
        <3>3. Items # << >> /\ Items' = Tail(Items)
            BY <2>1, <2>2, <3>1, <3>2, RestShrinks
        <3>4. Taken(c) = NoSlot
            BY <3>0 DEF Taken
        <3>5. Taken(c)' = Head(Items)
            <4>1. Taken(c)' = enq[head + 1]
                BY <3>0, <3>1, TakenIsNext DEF TakenAre, Took
            <4>2. Items[1] = enq[head + 1]
                BY <2>1, <2>2, <3>2 DEF IsRest
            <4>3. Head(Items) = Items[1]
                BY <2>1, <3>3, HeadTailProperties DEF IsRest
            <4> QED  BY <4>1, <4>2, <4>3
        <3>6. Held' = [Held EXCEPT ![c] = Head(Items)]
            BY <3>0, <3>1, <3>5, HeldOne
        <3>7. Held[c] = NoSlot
            BY <3>4 DEF Held
        <3> QED  BY <3>3, <3>6, <3>7 DEF Fifo!Take, Items, ItemAt, Held
    <2>5. ASSUME NEW c \in Consumers, Deallocate(c)
          PROVE  Fifo!Finish(c)
        <3>1. /\ enq' = enq /\ head' = head /\ pc[c] = "use" /\ pc'[c] = "idle"
              /\ \A o \in Consumers \ {c} : pc'[o] = pc[o] /\ pos'[o] = pos[o]
            BY <2>5, Roles DEF Deallocate, Go, Forget, IInv, QTypeOK
        <3>2. Items' = Items
            BY <2>1, <2>2, <3>1, RestUnique
        <3>3. Taken(c) \in Slots
            BY <3>1, TakenIs, TookEnqueued DEF TakenAre, Took
        <3>4. Taken(c)' = NoSlot
            BY <3>1 DEF Taken
        <3>5. Held' = [Held EXCEPT ![c] = NoSlot]
            BY <3>1, <3>4, HeldOne
        <3>6. Held[c] # NoSlot
            BY <3>3, MPMCSlots DEF Held
        <3> QED  BY <3>2, <3>5, <3>6 DEF Fifo!Finish, Items, ItemAt, Held
    <2>6. ASSUME UNCHANGED <<head, enq>>,
                 \A c \in Consumers : Took(c)' = Took(c) /\ (Took(c) => pos'[c] = pos[c])
          PROVE  Items' = Items /\ Held' = Held
        <3>1. Items' = Items
            BY <2>1, <2>2, <2>6, RestUnique
        <3>2. Held' = Held
            BY <2>6, HeldSame
        <3> QED  BY <3>1, <3>2
    <2>7. ASSUME NEW p \in Producers, ProducerStep(p)
          PROVE  \/ EnqueueMove(p)
                 \/ /\ UNCHANGED <<head, enq>>
                    /\ \A c \in Consumers : pc'[c] = pc[c] /\ pos'[c] = pos[c]
        BY <2>7, Roles
           DEF ProducerStep, EnqueueLoad, EnqueueLook, EnqueueClaim, EnqueueMove,
               EnqueueWrite, EnqueuePublish, Go, Forget, IInv, QTypeOK
    <2>8. ASSUME NEW c \in Consumers, ConsumerStep(c)
          PROVE  \/ DequeueMove(c)
                 \/ Deallocate(c)
                 \/ /\ UNCHANGED <<head, enq>>
                    /\ \A o \in Consumers : /\ Took(o)' = Took(o)
                                            /\ Took(o) => pos'[o] = pos[o]
        BY <2>8, Roles
           DEF ConsumerStep, DequeueLoad, DequeueLook, DequeueClaim, DequeueMove,
               DequeueRead, DequeueRelease, Go, Forget, Took, IInv, QTypeOK
    <2>9. CASE QNext
        <3>1. CASE \E p \in Producers : ProducerStep(p)
            <4>1. PICK p \in Producers : ProducerStep(p)  BY <3>1
            <4>2. CASE EnqueueMove(p)  BY <2>3, <4>2 DEF Fifo!FifoNext
            <4>3. CASE ~ EnqueueMove(p)
                <5>1. /\ UNCHANGED <<head, enq>>
                      /\ \A c \in Consumers : pc'[c] = pc[c] /\ pos'[c] = pos[c]
                    BY <2>7, <4>1, <4>3
                <5> QED  BY <2>6, <5>1 DEF Took
            <4> QED  BY <4>2, <4>3
        <3>2. CASE \E c \in Consumers : ConsumerStep(c)
            <4>1. PICK c \in Consumers : ConsumerStep(c)  BY <3>2
            <4> QED  BY <2>4, <2>5, <2>6, <2>8, <4>1 DEF Fifo!FifoNext
        <3> QED  BY <2>9, <3>1, <3>2 DEF QNext
    <2>10. CASE UNCHANGED qvars
        BY <2>6, <2>10 DEF qvars, Took
    <2> QED  BY <2>9, <2>10
<1> QED  BY <1>1, <1>2, QSpecIInv, PTL
            DEF QSpec, MPMCImplementsFifo, Fifo!FifoSpec, Fifo!fifoVars, Items, ItemAt,
                Held

=============================================================================
