---------------------------- MODULE MoodyFreeList ----------------------------
(***************************************************************************)
(* FreeList of moodycamel/concurrentqueue.h: a stack of blocks linked       *)
(* through freeListNext, whose nodes carry a count of references so that a  *)
(* thread may read the link of a node that others are taking.  The upper    *)
(* bit of the count, SHOULD_BE_ON_FREELIST, hands an add over to the thread *)
(* that drops the last reference.  One step is one atomic access; the load  *)
(* of a value that only serves as the expected value of the next            *)
(* compare-exchange is in the step of that exchange.  Memory is             *)
(* sequentially consistent here.                                            *)
(***************************************************************************)
EXTENDS Integers, Sequences, FiniteSets

CONSTANTS
    Threads,
    Blocks     \* bound: the blocks there are, numbered from 1

ASSUME ThreadsAssumption == IsFiniteSet(Threads)
ASSUME BlocksAssumption  == IsFiniteSet(Blocks) /\ Blocks = 1 .. Cardinality(Blocks)

Null == 0

VARIABLES
    flHead,     \* freeListHead
    flRefs,     \* per block, the references counted in freeListRefs
    flShould,   \* the blocks whose SHOULD_BE_ON_FREELIST bit is set
    flNext,     \* freeListNext
    fl          \* per thread, its call of try_get() or add()

flVars == <<flHead, flRefs, flShould, flNext, fl>>

\* A thread that is in no call; of a call, the place, the local head and next of
\* try_get(), and the node of add() with what follows it.
NoCall == [at |-> "none", head |-> Null, next |-> Null, node |-> Null, then |-> "none"]

FLInit ==
    /\ flHead = Null
    /\ flRefs = [b \in Blocks |-> 0]
    /\ flShould = {}
    /\ flNext = [b \in Blocks |-> Null]
    /\ fl = [t \in Threads |-> NoCall]

FLAt(t, place) == fl[t].at = place
FLGoto(t, place) == fl' = [fl EXCEPT ![t].at = place]

\* while (head != nullptr)
Retry(head) ==
    [NoCall EXCEPT !.at = IF head = Null THEN "null" ELSE "ref", !.head = head]

-----------------------------------------------------------------------------
(***************************************************************************)
(* try_get()                                                                *)
(***************************************************************************)
TryGetLoad(t) ==
    /\ FLAt(t, "load")
    /\ fl' = [fl EXCEPT ![t] = Retry(flHead)]
    /\ UNCHANGED <<flHead, flRefs, flShould, flNext>>

\* A node without references is being taken or added: start again.  Otherwise
\* one reference more; a compare-exchange that fails also starts again.
TryGetRef(t) ==
    /\ FLAt(t, "ref")
    /\ IF flRefs[fl[t].head] = 0
       THEN FLGoto(t, "load") /\ UNCHANGED flRefs
       ELSE FLGoto(t, "next") /\ flRefs' = [flRefs EXCEPT ![fl[t].head] = @ + 1]
    /\ UNCHANGED <<flHead, flShould, flNext>>

TryGetNext(t) ==
    /\ FLAt(t, "next")
    /\ fl' = [fl EXCEPT ![t].next = flNext[fl[t].head], ![t].at = "cas"]
    /\ UNCHANGED <<flHead, flRefs, flShould, flNext>>

\* The compare-exchange on the head; when it fails, head is what it found there
\* and node the prevHead whose reference is to be dropped.
TryGetCas(t) ==
    /\ FLAt(t, "cas")
    /\ IF flHead = fl[t].head
       THEN flHead' = fl[t].next /\ FLGoto(t, "take")
       ELSE /\ fl' = [fl EXCEPT ![t] =
                        [NoCall EXCEPT !.at = "drop", !.head = flHead, !.node = fl[t].head]]
            /\ UNCHANGED flHead
    /\ UNCHANGED <<flRefs, flShould, flNext>>

\* Mutant: the reference of the list stays.
TryGetTakeOnce(t) ==
    /\ FLAt(t, "take")
    /\ flRefs' = [flRefs EXCEPT ![fl[t].head] = @ - 1]
    /\ fl' = [fl EXCEPT ![t] = [NoCall EXCEPT !.at = "got", !.head = fl[t].head]]
    /\ UNCHANGED <<flHead, flShould, flNext>>

\* fetch_sub(2): the reference of the thread and the one of the list.
TryGetTake(t) ==
    /\ FLAt(t, "take")
    /\ flRefs' = [flRefs EXCEPT ![fl[t].head] = @ - 2]
    /\ fl' = [fl EXCEPT ![t] = [NoCall EXCEPT !.at = "got", !.head = fl[t].head]]
    /\ UNCHANGED <<flHead, flShould, flNext>>

\* fetch_sub(1): who drops the last reference of a node that should be on the list
\* adds it, and goes on with its own try_get() behind that.
TryGetDrop(t) ==
    /\ FLAt(t, "drop")
    /\ LET node == fl[t].node
       IN  /\ flRefs' = [flRefs EXCEPT ![node] = @ - 1]
           /\ IF flRefs[node] = 1 /\ node \in flShould
              THEN fl' = [fl EXCEPT ![t].at = "link", ![t].then = "retry"]
              ELSE fl' = [fl EXCEPT ![t] = Retry(@.head)]
    /\ UNCHANGED <<flHead, flShould, flNext>>

TryGet(t) ==
    TryGetLoad(t) \/ TryGetRef(t) \/ TryGetNext(t) \/ TryGetCas(t) \/ TryGetTake(t)
        \/ TryGetDrop(t)

-----------------------------------------------------------------------------
(***************************************************************************)
(* add() and add_knowing_refcount_is_zero()                                 *)
(***************************************************************************)
Returned(t) == IF fl[t].then = "retry" THEN Retry(fl[t].head) ELSE NoCall

\* fetch_add(SHOULD_BE_ON_FREELIST): with references left, the thread that drops
\* the last one will do the rest.
Add(t) ==
    /\ FLAt(t, "add")
    /\ flShould' = flShould \union {fl[t].node}
    /\ IF flRefs[fl[t].node] = 0 /\ fl[t].node \notin flShould
       THEN FLGoto(t, "link") ELSE fl' = [fl EXCEPT ![t] = Returned(t)]
    /\ UNCHANGED <<flHead, flRefs, flNext>>

\* The head is loaded, as the one to be linked behind the node ...
AddLoad(t) ==
    /\ FLAt(t, "link")
    /\ fl' = [fl EXCEPT ![t].next = flHead, ![t].at = "refs"]
    /\ UNCHANGED <<flHead, flRefs, flShould, flNext>>

\* ... then the link, and freeListRefs = 1, which clears the upper bit too.
AddLink(t) ==
    /\ FLAt(t, "refs")
    /\ flNext' = [flNext EXCEPT ![fl[t].node] = fl[t].next]
    /\ flRefs' = [flRefs EXCEPT ![fl[t].node] = 1]
    /\ flShould' = flShould \ {fl[t].node}
    /\ FLGoto(t, "push")
    /\ UNCHANGED flHead

\* When the compare-exchange fails, it leaves the head it found.
AddPush(t) ==
    /\ FLAt(t, "push")
    /\ IF flHead = fl[t].next
       THEN flHead' = fl[t].node /\ fl' = [fl EXCEPT ![t] = Returned(t)]
       ELSE fl' = [fl EXCEPT ![t].next = flHead, ![t].at = "unlink"] /\ UNCHANGED flHead
    /\ UNCHANGED <<flRefs, flShould, flNext>>

\* The head has changed: fetch_add(SHOULD_BE_ON_FREELIST - 1), and once more only
\* when there is no other reference.
AddUnlink(t) ==
    /\ FLAt(t, "unlink")
    /\ flRefs' = [flRefs EXCEPT ![fl[t].node] = @ - 1]
    /\ flShould' = flShould \union {fl[t].node}
    /\ IF flRefs[fl[t].node] = 1 /\ fl[t].node \notin flShould
       THEN FLGoto(t, "refs") ELSE fl' = [fl EXCEPT ![t] = Returned(t)]
    /\ UNCHANGED <<flHead, flNext>>

AddNext(t) == Add(t) \/ AddLoad(t) \/ AddLink(t) \/ AddPush(t) \/ AddUnlink(t)

FLNext(t) == TryGet(t) \/ AddNext(t)

\* The blocks linked from the head, and whether the links end.
Linked ==
    LET next[n \in 0 .. Cardinality(Blocks)] ==
            IF n = 0 THEN flHead
            ELSE IF next[n - 1] = Null THEN Null ELSE flNext[next[n - 1]]
    IN  [nodes |-> {next[n] : n \in 0 .. Cardinality(Blocks)} \ {Null},
         ends  |-> next[Cardinality(Blocks)] = Null]

=============================================================================
