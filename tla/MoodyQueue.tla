------------------------------ MODULE MoodyQueue ------------------------------
(***************************************************************************)
(* moodycamel::ConcurrentQueue as MoodycamelLockFreeQueue of Queue.hpp uses *)
(* it: enqueue() through implicit producers and try_dequeue().  Each thread *)
(* that enqueues has a producer, which is a chain of blocks found through a *)
(* block index; a block whose elements are all taken goes to the free list  *)
(* when it is one of the initial pool, and to the heap otherwise.           *)
(*                                                                         *)
(* An element is the producer and the index it was enqueued at.  Indices do *)
(* not wrap around.  One step is one access to what threads share; a step   *)
(* that only touches what one thread can see is joined with the next one,   *)
(* and so are the search for the producer of a thread, the two accesses to  *)
(* the index of the initial pool, and the loads of a header and of its tail *)
(* (a header that has been replaced keeps its tail).                        *)
(***************************************************************************)
EXTENDS MoodyFreeList

CONSTANTS
    BlockSize,       \* BLOCK_SIZE
    IndexSize,       \* IMPLICIT_INITIAL_INDEX_SIZE
    MaxProducers,    \* bound: producers that are ever created
    Workloads        \* bound: the pool size, the calls of each thread, and the
                     \* threads that end and start anew

ASSUME BlockSizeAssumption == BlockSize \in {2^n : n \in 1 .. 10}
ASSUME IndexSizeAssumption == IndexSize \in {2^n : n \in 1 .. 10}

ASSUME ProducersAssumption == MaxProducers \in Nat

ASSUME WorkloadsAssumption ==
    \A w \in Workloads :
        /\ w.pool \in 0 .. Cardinality(Blocks)
        /\ w.enq \in [Threads -> Nat] /\ w.deq \in [Threads -> Nat] /\ w.exits \in Nat

Producers == 1 .. MaxProducers
NoKey     == 1                        \* INVALID_BLOCK_BASE

VARIABLES
    pc, loc,       \* per thread: its place, and its local variables
    enqs, deqs,    \* per thread: calls it has still to make
    exits,         \* threads that are still to end
    \* the queue
    initialBlockPoolSize,
    poolIndex,     \* initialBlockPoolIndex
    heapFree,      \* blocks that malloc can give
    created,       \* the producers 1 .. created are in the list, the last one first
    inactive,      \* producers whose thread has ended
    prodOf,        \* implicitProducerHash: the producer of each thread
    \* producers
    tailIndex, headIndex, dequeueOptimisticCount, dequeueOvercommit, tailBlock,
    entries,       \* BlockIndexEntry of each producer: key and value
    headers,       \* BlockIndexHeader: index and tail; the last one is current
    \* blocks
    cell, elementsCompletelyDequeued

threadVars == <<pc, loc, enqs, deqs, exits>>
blockSrc   == <<initialBlockPoolSize, poolIndex, heapFree>>
prodList   == <<created, inactive, prodOf>>
counters   == <<headIndex, dequeueOptimisticCount, dequeueOvercommit>>
indexVars  == <<entries, headers>>
blockVars  == <<cell, elementsCompletelyDequeued>>
vars == <<threadVars, blockSrc, prodList, tailIndex, counters, tailBlock, indexVars,
          blockVars, flVars>>

\* The locals of a thread that is in no call: the producer, overcommit,
\* myDequeueCount, index, the header and tail of a lookup, the entry and block
\* found, the element; and ptr, best and its size of try_dequeue().
Blank == [p |-> 0, over |-> 0, my |-> 0, idx |-> 0, hdr |-> 0, tl |-> 0, ent |-> 0,
          blk |-> Null, el |-> <<0, 0>>, ptr |-> 0, best |-> 0, size |-> 0, more |-> FALSE]

QInit ==
    /\ FLInit
    /\ pc = [t \in Threads |-> "idle"] /\ loc = [t \in Threads |-> Blank]
    /\ \E w \in Workloads :
         /\ enqs = w.enq /\ deqs = w.deq /\ exits = w.exits
         /\ initialBlockPoolSize = w.pool
         /\ heapFree = {b \in Blocks : b > w.pool}
    /\ poolIndex = 0
    /\ created = 0 /\ inactive = {} /\ prodOf = [t \in Threads |-> 0]
    /\ tailIndex = [p \in Producers |-> 0] /\ headIndex = [p \in Producers |-> 0]
    /\ dequeueOptimisticCount = [p \in Producers |-> 0]
    /\ dequeueOvercommit = [p \in Producers |-> 0]
    /\ tailBlock = [p \in Producers |-> Null]
    /\ entries = [p \in Producers |-> <<>>]
    /\ headers = [p \in Producers |-> <<>>]
    /\ cell = [b \in Blocks |-> [i \in 0 .. BlockSize - 1 |-> <<0, 0>>]]
    /\ elementsCompletelyDequeued = [b \in Blocks |-> 0]

At(t, place) == pc[t] = place
Goto(t, place) == pc' = [pc EXCEPT ![t] = place]
Return(t) == Goto(t, "idle") /\ loc' = [loc EXCEPT ![t] = Blank]

-----------------------------------------------------------------------------
(***************************************************************************)
(* The block index of a producer: a circular table of pointers to entries.  *)
(***************************************************************************)
Current(p) == Len(headers[p])
Capacity(h) == Cardinality(DOMAIN h.index)

NewEntry == [key |-> NoKey, value |-> Null]

\* The first index of a producer, made by its constructor.
FirstIndex == [index |-> [i \in 0 .. IndexSize - 1 |-> i + 1], tail |-> IndexSize - 1]

\* new_block_index(): the old entries from behind the tail on, then as many new.
GrownIndex(p) ==
    LET old == headers[p][Current(p)]
        n   == Capacity(old)
    IN  [index |-> [i \in 0 .. 2 * n - 1 |->
                      IF i < n THEN old.index[(old.tail + 1 + i) % n]
                      ELSE Len(entries[p]) + i - n + 1],
         tail  |-> n - 1]

\* The entry behind the tail can be used when it never was, or was given up.
Usable(p, h) ==
    LET e == entries[p][h.index[(h.tail + 1) % Capacity(h)]]
    IN  e.key = NoKey \/ e.value = Null

\* get_block_index_entry_for_index(), of a header and the tail loaded from it.
EntryFor(p, h, tail, index) ==
    LET base == index - (index % BlockSize)
        key  == entries[p][h.index[tail]].key
    IN  h.index[(tail + (base - key) \div BlockSize) % Capacity(h)]

-----------------------------------------------------------------------------
(***************************************************************************)
(* enqueue()                                                                *)
(***************************************************************************)
\* get_or_add_implicit_producer() finds the thread in the hash ...
OwnProducer(t, p) ==
    /\ p = prodOf[t]
    /\ UNCHANGED <<prodList, indexVars>>

\* ... or recycles a producer whose thread has ended, with what is in it ...
RecycleProducer(t, p) ==
    /\ prodOf[t] = 0 /\ p \in inactive
    /\ inactive' = inactive \ {p}
    /\ prodOf' = [prodOf EXCEPT ![t] = p]
    /\ UNCHANGED <<created, indexVars>>

\* ... or adds a new one at the head of the list.
AddProducer(t, p) ==
    /\ prodOf[t] = 0 /\ inactive = {} /\ p = created + 1
    /\ created' = p
    /\ prodOf' = [prodOf EXCEPT ![t] = p]
    /\ entries' = [entries EXCEPT ![p] = [i \in 1 .. IndexSize |-> NewEntry]]
    /\ headers' = [headers EXCEPT ![p] = <<FirstIndex>>]
    /\ UNCHANGED inactive

BeginEnqueue(t) ==
    /\ At(t, "idle")
    /\ enqs[t] > 0
    /\ enqs' = [enqs EXCEPT ![t] = @ - 1]
    /\ Goto(t, "enqueue")
    /\ \E p \in Producers :
         /\ OwnProducer(t, p) \/ RecycleProducer(t, p) \/ AddProducer(t, p)
         /\ loc' = [loc EXCEPT ![t].p = p]
    /\ UNCHANGED <<deqs, exits, blockSrc, tailIndex, counters, tailBlock, blockVars, flVars>>

StartsBlock(p) == tailIndex[p] % BlockSize = 0

\* insert_block_index_entry(), with new_block_index() when the entry behind the
\* tail still has a block.
InsertBlockIndexEntry(t) ==
    LET p == loc[t].p
        h == headers[p][Current(p)]
        grow == ~Usable(p, h)
        g == IF grow THEN GrownIndex(p) ELSE h
        es == IF grow THEN entries[p] \o [i \in 1 .. Capacity(h) |-> NewEntry] ELSE entries[p]
        tail == (g.tail + 1) % Capacity(g)
        new == [g EXCEPT !.tail = tail]
        e == g.index[tail]
    IN  /\ At(t, "enqueue") /\ StartsBlock(p)
        /\ headers' = [headers EXCEPT ![p] =
                         IF grow THEN Append(@, new) ELSE [@ EXCEPT ![Current(p)] = new]]
        /\ entries' = [entries EXCEPT ![p] = [es EXCEPT ![e].key = tailIndex[p]]]
        /\ loc' = [loc EXCEPT ![t].ent = e]
        /\ Goto(t, "requisition")
        /\ UNCHANGED <<enqs, deqs, exits, blockSrc, prodList, tailIndex, counters, tailBlock,
                       blockVars, flVars>>

\* There is no memory for a larger index: enqueue() gives false.
IndexNotGrown(t) ==
    LET p == loc[t].p
    IN  /\ At(t, "enqueue") /\ StartsBlock(p)
        /\ ~Usable(p, headers[p][Current(p)])
        /\ Return(t)
        /\ UNCHANGED <<enqs, deqs, exits, blockSrc, prodList, tailIndex, counters, tailBlock,
                       indexVars, blockVars, flVars>>

\* requisition_block(): the initial pool first ...
FromInitialPool(t) ==
    /\ At(t, "requisition")
    /\ IF poolIndex < initialBlockPoolSize
       THEN /\ poolIndex' = poolIndex + 1
            /\ loc' = [loc EXCEPT ![t].blk = poolIndex']
            /\ Goto(t, "link")
            /\ UNCHANGED fl
       ELSE /\ fl' = [fl EXCEPT ![t].at = "load"]
            /\ Goto(t, "freeList")
            /\ UNCHANGED <<poolIndex, loc>>
    /\ UNCHANGED <<enqs, deqs, exits, initialBlockPoolSize, heapFree, prodList, tailIndex, counters, tailBlock,
                   indexVars, blockVars, flHead, flRefs, flShould, flNext>>

\* ... then the free list, whose try_get() has given a block or null ...
FromFreeList(t) ==
    /\ At(t, "freeList")
    /\ \/ /\ FLAt(t, "got")
          /\ loc' = [loc EXCEPT ![t].blk = fl[t].head]
          /\ Goto(t, "link")
       \/ FLAt(t, "null") /\ Goto(t, "create") /\ UNCHANGED loc
    /\ fl' = [fl EXCEPT ![t] = NoCall]
    /\ UNCHANGED <<enqs, deqs, exits, blockSrc, prodList, tailIndex, counters, tailBlock,
                   indexVars, blockVars, flHead, flRefs, flShould, flNext>>

\* ... and last malloc, which may give none.
FromHeap(t) ==
    /\ At(t, "create")
    /\ \/ \E b \in heapFree :
            /\ heapFree' = heapFree \ {b}
            /\ loc' = [loc EXCEPT ![t].blk = b]
            /\ Goto(t, "link")
       \/ Goto(t, "rewind") /\ UNCHANGED <<heapFree, loc>>
    /\ UNCHANGED <<enqs, deqs, exits, initialBlockPoolSize, poolIndex, prodList, tailIndex, counters, tailBlock,
                   indexVars, blockVars, flVars>>

\* rewind_block_index_tail(), and enqueue() gives false.
RewindBlockIndexTail(t) ==
    LET p == loc[t].p
    IN  /\ At(t, "rewind")
        /\ headers' = [headers EXCEPT ![p][Current(p)].tail =
                         (@ - 1) % Capacity(headers[p][Current(p)])]
        /\ entries' = [entries EXCEPT ![p][loc[t].ent].value = Null]
        /\ Return(t)
        /\ UNCHANGED <<enqs, deqs, exits, blockSrc, prodList, tailIndex, counters, tailBlock,
                       blockVars, flVars>>

\* reset_empty(), and the block is in the index.
LinkBlock(t) ==
    LET p == loc[t].p
        b == loc[t].blk
    IN  /\ At(t, "link")
        /\ elementsCompletelyDequeued' = [elementsCompletelyDequeued EXCEPT ![b] = 0]
        /\ entries' = [entries EXCEPT ![p][loc[t].ent].value = b]
        /\ tailBlock' = [tailBlock EXCEPT ![p] = b]
        /\ Goto(t, "store")
        /\ UNCHANGED <<loc, enqs, deqs, exits, blockSrc, prodList, tailIndex, counters,
                       headers, cell, flVars>>

\* The element is made in its cell, and the tail shows it.
StoreElement(t) ==
    LET p == loc[t].p
        i == tailIndex[p]
    IN  /\ \/ At(t, "store")
           \/ At(t, "enqueue") /\ ~StartsBlock(p)
        /\ cell' = [cell EXCEPT ![tailBlock[p]][i % BlockSize] = <<p, i>>]
        /\ tailIndex' = [tailIndex EXCEPT ![p] = i + 1]
        /\ Return(t)
        /\ UNCHANGED <<enqs, deqs, exits, blockSrc, prodList, counters, tailBlock, indexVars,
                       elementsCompletelyDequeued, flVars>>

Enqueue(t) ==
    BeginEnqueue(t) \/ InsertBlockIndexEntry(t) \/ IndexNotGrown(t) \/ FromInitialPool(t)
        \/ FromFreeList(t) \/ FromHeap(t) \/ RewindBlockIndexTail(t) \/ LinkBlock(t) \/ StoreElement(t)

-----------------------------------------------------------------------------
(***************************************************************************)
(* try_dequeue() and ImplicitProducer::dequeue()                            *)
(***************************************************************************)
DequeueLeaves == UNCHANGED <<enqs, deqs, exits, prodList, tailIndex, tailBlock, headers, cell>>

\* size_approx()
SizeApprox(p) == IF headIndex[p] < tailIndex[p] THEN tailIndex[p] - headIndex[p] ELSE 0

BeginDequeue(t) ==
    /\ At(t, "idle")
    /\ deqs[t] > 0
    /\ deqs' = [deqs EXCEPT ![t] = @ - 1]
    /\ loc' = [loc EXCEPT ![t].ptr = created]
    /\ Goto(t, "score")
    /\ UNCHANGED <<enqs, exits, blockSrc, prodList, tailIndex, counters, tailBlock, indexVars,
                   blockVars, flVars>>

\* The first loop, one producer a step; then the fullest one, if there is any.
\* (The loop stops at the third that is not empty: there are no more here.)
Score(t) ==
    LET l == loc[t]
        fuller == SizeApprox(l.ptr) > l.size
    IN  /\ At(t, "score")
        /\ \/ /\ l.ptr > 0
              /\ loc' = [loc EXCEPT ![t].ptr = @ - 1,
                                    ![t].best = IF fuller THEN l.ptr ELSE @,
                                    ![t].size = IF fuller THEN SizeApprox(l.ptr) ELSE @]
              /\ UNCHANGED pc
           \/ /\ l.ptr = 0 /\ l.best # 0
              /\ loc' = [loc EXCEPT ![t] = [Blank EXCEPT !.best = l.best, !.p = l.best]]
              /\ Goto(t, "check")
           \/ l.ptr = 0 /\ l.best = 0 /\ Return(t)
        /\ DequeueLeaves /\ UNCHANGED <<blockSrc, counters, entries,
                                        elementsCompletelyDequeued, flVars>>

\* dequeue() of one producer gave false: the second loop goes on with the next one
\* that is not best.
TryNext(t) ==
    LET l == loc[t]
        others == {p \in 1 .. (IF l.more THEN l.p - 1 ELSE created) : p # l.best}
    IN  IF others = {} THEN Return(t)
        ELSE /\ \E p \in others :
                  /\ \A q \in others : q <= p
                  /\ loc' = [loc EXCEPT ![t] =
                               [Blank EXCEPT !.best = l.best, !.more = TRUE, !.p = p]]
             /\ Goto(t, "check")

\* The tail and the overcommit, which is kept for the claim ...
LoadOvercommit(t) ==
    LET p == loc[t].p
    IN  /\ At(t, "check")
        /\ loc' = [loc EXCEPT ![t].tl = tailIndex[p], ![t].over = dequeueOvercommit[p]]
        /\ Goto(t, "count")
        /\ DequeueLeaves /\ UNCHANGED <<blockSrc, counters, entries,
                                        elementsCompletelyDequeued, flVars>>

\* ... and only behind them the optimistic count.
Check(t) ==
    /\ At(t, "count")
    /\ IF dequeueOptimisticCount[loc[t].p] - loc[t].over < loc[t].tl
       THEN Goto(t, "claim") /\ UNCHANGED loc ELSE TryNext(t)
    /\ DequeueLeaves /\ UNCHANGED <<blockSrc, counters, entries,
                                    elementsCompletelyDequeued, flVars>>

Claim(t) ==
    LET p == loc[t].p
    IN  /\ At(t, "claim")
        /\ loc' = [loc EXCEPT ![t].my = dequeueOptimisticCount[p], ![t].tl = 0]
        /\ dequeueOptimisticCount' = [dequeueOptimisticCount EXCEPT ![p] = @ + 1]
        /\ Goto(t, "tail")
        /\ DequeueLeaves
        /\ UNCHANGED <<blockSrc, headIndex, dequeueOvercommit, entries,
                       elementsCompletelyDequeued, flVars>>

\* Mutant: the tail is not looked at again behind the claim.
CheckTailOnce(t) ==
    LET p == loc[t].p
    IN  /\ At(t, "tail")
        /\ loc' = [loc EXCEPT ![t].idx = headIndex[p]]
        /\ headIndex' = [headIndex EXCEPT ![p] = @ + 1]
        /\ Goto(t, "lookup")
        /\ DequeueLeaves
        /\ UNCHANGED <<blockSrc, dequeueOptimisticCount, dequeueOvercommit, entries,
                       elementsCompletelyDequeued, flVars>>

\* The tail again: one claim in so many is good for an element, which is the one
\* that headIndex gives.
CheckTail(t) ==
    LET p == loc[t].p
    IN  /\ At(t, "tail")
        /\ IF loc[t].my - loc[t].over < tailIndex[p]
           THEN /\ loc' = [loc EXCEPT ![t].idx = headIndex[p]]
                /\ headIndex' = [headIndex EXCEPT ![p] = @ + 1]
                /\ Goto(t, "lookup")
           ELSE Goto(t, "overcommit") /\ UNCHANGED <<loc, headIndex>>
        /\ DequeueLeaves
        /\ UNCHANGED <<blockSrc, dequeueOptimisticCount, dequeueOvercommit, entries,
                       elementsCompletelyDequeued, flVars>>

\* A claim too many is made good.
Overcommit(t) ==
    /\ At(t, "overcommit")
    /\ dequeueOvercommit' = [dequeueOvercommit EXCEPT ![loc[t].p] = @ + 1]
    /\ TryNext(t)
    /\ DequeueLeaves
    /\ UNCHANGED <<blockSrc, headIndex, dequeueOptimisticCount, entries,
                   elementsCompletelyDequeued, flVars>>

\* get_block_index_index_for_index() loads the header and its tail ...
Lookup(t) ==
    LET p == loc[t].p
    IN  /\ At(t, "lookup")
        /\ loc' = [loc EXCEPT ![t].hdr = Current(p), ![t].tl = headers[p][Current(p)].tail]
        /\ Goto(t, "entry")
        /\ DequeueLeaves /\ UNCHANGED <<blockSrc, counters, entries,
                                        elementsCompletelyDequeued, flVars>>

\* ... and then the key there, while the producer may have gone on.
FindEntry(t) ==
    LET p == loc[t].p
        e == EntryFor(p, headers[p][loc[t].hdr], loc[t].tl, loc[t].idx)
    IN  /\ At(t, "entry")
        /\ loc' = [loc EXCEPT ![t].ent = e, ![t].blk = entries[p][e].value]
        /\ Goto(t, "read")
        /\ DequeueLeaves /\ UNCHANGED <<blockSrc, counters, entries,
                                        elementsCompletelyDequeued, flVars>>

ReadElement(t) ==
    /\ At(t, "read")
    /\ loc' = [loc EXCEPT ![t].el = cell[loc[t].blk][loc[t].idx % BlockSize]]
    /\ Goto(t, "empty")
    /\ DequeueLeaves /\ UNCHANGED <<blockSrc, counters, entries,
                                    elementsCompletelyDequeued, flVars>>

\* Mutant: the block is given up with its last element, whoever still reads
\* the others.
SetEmptyByIndex(t) ==
    /\ At(t, "empty")
    /\ IF loc[t].idx % BlockSize = BlockSize - 1 THEN Goto(t, "unindex") /\ UNCHANGED loc
       ELSE Return(t)
    /\ DequeueLeaves
    /\ UNCHANGED <<blockSrc, counters, entries, elementsCompletelyDequeued, flVars>>

\* set_empty(): who counts the last element of the block gives it up.
SetEmpty(t) ==
    LET b == loc[t].blk
    IN  /\ At(t, "empty")
        /\ elementsCompletelyDequeued' = [elementsCompletelyDequeued EXCEPT ![b] = @ + 1]
        /\ IF elementsCompletelyDequeued[b] = BlockSize - 1
           THEN Goto(t, "unindex") /\ UNCHANGED loc ELSE Return(t)
        /\ DequeueLeaves /\ UNCHANGED <<blockSrc, counters, entries, flVars>>

\* The entry is free for the producer, and add_block_to_free_list() destroys the
\* block or adds it.
GiveUpBlock(t) ==
    LET b == loc[t].blk
    IN  /\ At(t, "unindex")
        /\ entries' = [entries EXCEPT ![loc[t].p][loc[t].ent].value = Null]
        /\ IF b > initialBlockPoolSize
           THEN heapFree' = heapFree \union {b} /\ Return(t) /\ UNCHANGED fl
           ELSE /\ fl' = [fl EXCEPT ![t] = [NoCall EXCEPT !.at = "add", !.node = b]]
                /\ Goto(t, "adding")
                /\ UNCHANGED <<heapFree, loc>>
        /\ DequeueLeaves
        /\ UNCHANGED <<initialBlockPoolSize, poolIndex, counters, elementsCompletelyDequeued, flHead, flRefs,
                       flShould, flNext>>

Added(t) ==
    /\ At(t, "adding") /\ FLAt(t, "none")
    /\ Return(t)
    /\ DequeueLeaves /\ UNCHANGED <<blockSrc, counters, entries,
                                    elementsCompletelyDequeued, flVars>>

TryDequeue(t) ==
    BeginDequeue(t) \/ Score(t) \/ LoadOvercommit(t) \/ Check(t) \/ Claim(t)
        \/ CheckTail(t) \/ Overcommit(t) \/ Lookup(t) \/ FindEntry(t) \/ ReadElement(t) \/ SetEmpty(t) \/ GiveUpBlock(t)
        \/ Added(t)

-----------------------------------------------------------------------------
\* implicit_producer_thread_exited(): another thread may have the producer, with
\* what is in it.
ThreadExit(t) ==
    /\ At(t, "idle") /\ prodOf[t] # 0
    /\ exits > 0
    /\ exits' = exits - 1
    /\ prodOf' = [prodOf EXCEPT ![t] = 0]
    /\ inactive' = inactive \union {prodOf[t]}
    /\ UNCHANGED <<pc, loc, enqs, deqs, blockSrc, created, tailIndex, counters, tailBlock,
                   indexVars, blockVars, flVars>>

FreeListStep(t) ==
    /\ FLNext(t)
    /\ UNCHANGED <<threadVars, blockSrc, prodList, tailIndex, counters, tailBlock, indexVars,
                   blockVars>>

Finished ==
    /\ \A t \in Threads :
         At(t, "idle") /\ enqs[t] = 0 /\ deqs[t] = 0
    /\ UNCHANGED vars

QNext ==
    \/ \E t \in Threads : Enqueue(t) \/ TryDequeue(t) \/ ThreadExit(t) \/ FreeListStep(t)
    \/ Finished

QSpec == QInit /\ [][QNext]_vars

-----------------------------------------------------------------------------
\* Threads that have claimed an element and do not know yet whether there is one.
Pending(p) == {t \in Threads : loc[t].p = p /\ pc[t] \in {"tail", "overcommit"}}

\* concurrentqueue.h:2554-2614: no thread is given the index of an element that is
\* not there, however many claim at once; and every claim that came to nothing is
\* made good, so that once the threads are through the count shows what is left.
CountsAgree ==
    \A p \in 1 .. created :
        /\ headIndex[p] <= tailIndex[p]
        /\ dequeueOptimisticCount[p] - dequeueOvercommit[p]
               = headIndex[p] + Cardinality(Pending(p))

\* concurrentqueue.h:2564-2596, 2941-2964: the block found for an index is the one
\* the element was put in, and still has it when it is read, whatever the
\* producer has done to its index and its blocks since the header was loaded.
ReadsItsElement ==
    \A t \in Threads :
        /\ pc[t] = "read" => loc[t].blk # Null
        /\ pc[t] = "empty" => loc[t].el = <<loc[t].p, loc[t].idx>>

\* The threads that have block b in hand, between its places.
Holders(b) ==
    {t \in Threads : \/ pc[t] = "link" /\ loc[t].blk = b
                     \/ fl[t].at \in {"take", "got"} /\ fl[t].head = b
                     \/ fl[t].at \in {"add", "link", "refs", "push", "unlink"} /\ fl[t].node = b}

IndexPlaces(b) ==
    {pe \in UNION {{p} \X DOMAIN entries[p] : p \in Producers} :
        entries[pe[1]][pe[2]].value = b}

Count(cond) == IF cond THEN 1 ELSE 0

\* The references of b: those of the threads in try_get(), and the one of the list,
\* which is there before b is linked and goes when b has been taken.
References(b, linked) ==
    LET in(places) == {t \in Threads : fl[t].at \in places}
    IN  Count(linked)
          + Cardinality({t \in in({"next", "cas"}) : fl[t].head = b})
          + 2 * Cardinality({t \in in({"take"}) : fl[t].head = b})
          + Cardinality({t \in in({"drop", "push", "unlink"}) : fl[t].node = b})

\* concurrentqueue.h:1459-1539, 2599-2607, 3056-3114: a block is untouched in the
\* initial pool, on the heap, on the free list, with one thread, left to the
\* thread that drops its last reference, or in one entry of one producer: one of
\* these and one time only.  The links of the free list end, and freeListRefs
\* counts the list and the threads that still look at the node, so that no link
\* changes under a thread that is about to take the node by it.
BlocksOwned ==
    LET list == Linked IN
    /\ list.ends
    /\ \A b \in Blocks :
         /\ Count(b > poolIndex /\ b <= initialBlockPoolSize) + Count(b \in heapFree)
              + Count(b \in list.nodes) + Cardinality(Holders(b))
              + Count(b \in flShould /\ Holders(b) = {}) + Cardinality(IndexPlaces(b)) = 1
         /\ flRefs[b] = References(b, b \in list.nodes)

=============================================================================
