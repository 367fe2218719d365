----------------------- MODULE LockFreeThreadSafePool ------------------------
(***************************************************************************)
(* LockFreeThreadSafePool of MemoryPool.hpp: a free list threaded through   *)
(* nextFree_, its head packed with a tag in one atomic word.  One step per  *)
(* access to shared memory.  A buffer may be returned by another thread     *)
(* than the one that got it, as in the pipeline.                            *)
(*                                                                         *)
(* The tag has TagMod values (2^32 in the code).  A thread that sleeps in   *)
(* an operation while TagMod others complete would see its tag again; the   *)
(* model excludes that, and only that, by NoTagWrap.  nextFree_ is plain    *)
(* memory that allocate() may read while deallocate() writes it: aligned    *)
(* words, so the reader gets the value before or after the write.           *)
(***************************************************************************)
EXTENDS Integers, FiniteSets

CONSTANTS PoolMsgCount, Threads, TagMod

ASSUME PoolSizeAssumption == PoolMsgCount \in Nat \ {0}
ASSUME TagAssumption      == TagMod \in Nat \ {0, 1}

Indices == 0 .. PoolMsgCount - 1

\* The index that marks the end of the list: nextFree_[0] = 0 - 1, cut to 32 bits.
End == -1

\* A thread's copy of head_ while it has none: outside both operations.
NoHead == [index |-> End, tag |-> 0]

VARIABLES
    head,       \* head_, unpacked: [index, tag]
    nextFree,   \* nextFree_
    taken,      \* buffers that callers have
    pc,         \* where each thread is
    oldHead,    \* its local copy of head_
    link,       \* allocate(): its local nextIndex
    back,       \* deallocate(): the index it returns
    age,        \* ghost: changes of head_ since it loaded oldHead
    crashed     \* the process was killed by an access outside nextFree_

locals == <<oldHead, link, back>>
pvars  == <<head, nextFree, taken, pc, locals, age, crashed>>

Init ==
    /\ head = [index |-> PoolMsgCount - 1, tag |-> 0]
    /\ nextFree = [i \in Indices |-> i - 1]
    /\ taken = {}
    /\ pc = [t \in Threads |-> "idle"]
    /\ oldHead = [t \in Threads |-> NoHead]
    /\ link = [t \in Threads |-> End]
    /\ back = [t \in Threads |-> End]
    /\ age = [t \in Threads |-> 0]
    /\ crashed = FALSE

-----------------------------------------------------------------------------
Go(t, from, to) == ~crashed /\ pc[t] = from /\ pc' = [pc EXCEPT ![t] = to]

\* oldHead = head_, by a load or by a failed compare_exchange_weak
LoadHead(t) ==
    /\ oldHead' = [oldHead EXCEPT ![t] = head]
    /\ age' = [age EXCEPT ![t] = 0]
    /\ UNCHANGED head

\* No other thread is about to see the tag of its oldHead again.
NoTagWrap(t) == \A u \in Threads \ {t} : pc[u] = "idle" \/ age[u] + 1 < TagMod

\* Mutant: the new head keeps the tag.
StoreHeadSameTag(t, index) ==
    /\ head = oldHead[t]
    /\ NoTagWrap(t)
    /\ head' = [index |-> index, tag |-> oldHead[t].tag]
    /\ age' = [u \in Threads |-> IF u = t \/ pc[u] = "idle" THEN 0 ELSE age[u] + 1]
    /\ oldHead' = [oldHead EXCEPT ![t] = NoHead]

\* Mutant: the tag outgrows its 32 bits.
StoreHeadWideTag(t, index) ==
    /\ head = oldHead[t]
    /\ NoTagWrap(t)
    /\ head' = [index |-> index, tag |-> oldHead[t].tag + 1]
    /\ age' = [u \in Threads |-> IF u = t \/ pc[u] = "idle" THEN 0 ELSE age[u] + 1]
    /\ oldHead' = [oldHead EXCEPT ![t] = NoHead]

\* A successful compare_exchange_weak(oldHead, pack(index, tag + 1))
StoreHead(t, index) ==
    /\ head = oldHead[t]
    /\ NoTagWrap(t)
    /\ head' = [index |-> index, tag |-> (oldHead[t].tag + 1) % TagMod]
    /\ age' = [u \in Threads |-> IF u = t \/ pc[u] = "idle" THEN 0 ELSE age[u] + 1]
    /\ oldHead' = [oldHead EXCEPT ![t] = NoHead]

\* allocate(): the first load of head_
AllocateLoad(t) ==
    /\ Go(t, "idle", "read")
    /\ LoadHead(t)
    /\ UNCHANGED <<nextFree, taken, link, back, crashed>>

\* nextIndex = nextFree_[index].  The guard index == -1 compares a 64-bit value
\* cut to 32 bits with 2^64 - 1 and never holds, so the end marker is used as an
\* index, 32 GiB past the array.
AllocateRead(t) ==
    \/ /\ oldHead[t].index # End
       /\ Go(t, "read", "pop")
       /\ link' = [link EXCEPT ![t] = nextFree[oldHead[t].index]]
       /\ UNCHANGED <<head, nextFree, taken, oldHead, back, age, crashed>>
    \/ /\ oldHead[t].index = End
       /\ Go(t, "read", "read")
       /\ crashed' = TRUE
       /\ UNCHANGED <<head, nextFree, taken, locals, age>>

\* The compare_exchange_weak of allocate(); it may also fail spuriously.
AllocateCAS(t) ==
    \/ /\ Go(t, "pop", "idle")
       /\ StoreHead(t, link[t])
       /\ taken' = taken \union {oldHead[t].index}
       /\ link' = [link EXCEPT ![t] = End]
       /\ UNCHANGED <<nextFree, back, crashed>>
    \/ /\ Go(t, "pop", "read")
       /\ LoadHead(t)
       /\ link' = [link EXCEPT ![t] = End]
       /\ UNCHANGED <<nextFree, taken, back, crashed>>

\* deallocate(msg): the caller gives the buffer up; the first load of head_
DeallocateLoad(t) ==
    /\ Go(t, "idle", "link")
    /\ \E i \in taken : /\ taken' = taken \ {i}
                        /\ back' = [back EXCEPT ![t] = i]
    /\ LoadHead(t)
    /\ UNCHANGED <<nextFree, link, crashed>>

\* nextFree_[index] = headIndex
DeallocateLink(t) ==
    /\ Go(t, "link", "push")
    /\ nextFree' = [nextFree EXCEPT ![back[t]] = oldHead[t].index]
    /\ UNCHANGED <<head, taken, locals, age, crashed>>

\* Mutant: a failed exchange is repeated without linking the buffer again.
DeallocateCASOnly(t) ==
    \/ /\ Go(t, "push", "idle")
       /\ StoreHead(t, back[t])
       /\ back' = [back EXCEPT ![t] = End]
       /\ UNCHANGED <<nextFree, taken, link, crashed>>
    \/ /\ Go(t, "push", "push")
       /\ LoadHead(t)
       /\ UNCHANGED <<nextFree, taken, link, back, crashed>>

\* The compare_exchange_weak of deallocate()
DeallocateCAS(t) ==
    \/ /\ Go(t, "push", "idle")
       /\ StoreHead(t, back[t])
       /\ back' = [back EXCEPT ![t] = End]
       /\ UNCHANGED <<nextFree, taken, link, crashed>>
    \/ /\ Go(t, "push", "link")
       /\ LoadHead(t)
       /\ UNCHANGED <<nextFree, taken, link, back, crashed>>

Step(t) == \/ AllocateLoad(t)   \/ AllocateRead(t)   \/ AllocateCAS(t)
           \/ DeallocateLoad(t) \/ DeallocateLink(t) \/ DeallocateCAS(t)

Next == \E t \in Threads : Step(t)

Spec == Init /\ [][Next]_pvars

-----------------------------------------------------------------------------
Heads == [index : Indices \union {End}, tag : 0 .. TagMod - 1]

PoolTypeOK ==
    /\ head \in Heads
    /\ nextFree \in [Indices -> Indices \union {End}]
    /\ taken \in SUBSET Indices
    /\ pc \in [Threads -> {"idle", "read", "pop", "link", "push"}]
    /\ oldHead \in [Threads -> Heads]
    /\ link \in [Threads -> Indices \union {End}]
    /\ back \in [Threads -> Indices \union {End}]
    /\ age \in [Threads -> 0 .. TagMod - 1]
    /\ crashed \in BOOLEAN

\* The list from head_: Walk[k] is the index after k links.
Walk ==
    LET w[k \in 0 .. PoolMsgCount] ==
            IF k = 0 THEN head.index
            ELSE IF w[k - 1] = End THEN End ELSE nextFree[w[k - 1]]
    IN  w

FreeList == {Walk[k] : k \in 0 .. PoolMsgCount} \ {End}

Returning == {back[t] : t \in Threads} \ {End}

\* The list ends, holds no buffer that a caller has or that is on its way back,
\* and misses none: a stale nextIndex never gets into head_.
ListExact ==
    /\ Walk[PoolMsgCount] = End
    /\ FreeList = Indices \ (taken \union Returning)

\* Seen from its callers the list is a pool of buffers: allocate() takes effect
\* at its exchange, deallocate() at its.
Pool == INSTANCE MessagePool WITH Buffers <- Indices, free <- FreeList,
                                  out <- taken \union Returning

ImplementsPool == Pool!PoolSpec

=============================================================================
