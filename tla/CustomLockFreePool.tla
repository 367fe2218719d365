------------------------- MODULE CustomLockFreePool --------------------------
(***************************************************************************)
(* CustomLockFreePool of MemoryPool.hpp: an array of free pointers used as  *)
(* a stack, head_ being the index of its top.  Only head_ is atomic; the    *)
(* cells are plain memory.  One step per access to shared memory.           *)
(***************************************************************************)
EXTENDS Integers, FiniteSets

CONSTANTS PoolMsgCount, Threads

Buffers == 0 .. PoolMsgCount - 1

VARIABLES
    head,          \* head_
    freeMsgs,      \* freeMsgs_
    owners,        \* how many callers have each buffer
    pc,
    currentHead,   \* local copy of head_
    msg            \* the local msg of allocate(), the argument of deallocate()

locals == <<currentHead, msg>>
svars  == <<head, freeMsgs, owners, pc, locals>>

Init ==
    /\ head = PoolMsgCount - 1
    /\ freeMsgs = [i \in Buffers |-> i]
    /\ owners = [b \in Buffers |-> 0]
    /\ pc = [t \in Threads |-> "idle"]
    /\ currentHead = [t \in Threads |-> 0]
    /\ msg = [t \in Threads |-> 0]

Go(t, from, to) == pc[t] = from /\ pc' = [pc EXCEPT ![t] = to]

LoadHead(t) == currentHead' = [currentHead EXCEPT ![t] = head]

AllocateLoad(t) ==
    /\ Go(t, "idle", "read")
    /\ LoadHead(t)
    /\ UNCHANGED <<head, freeMsgs, owners, msg>>

\* while (currentHead >= 0) msg = freeMsgs_[currentHead]; else return nullptr
AllocateRead(t) ==
    \/ /\ currentHead[t] >= 0
       /\ Go(t, "read", "pop")
       /\ msg' = [msg EXCEPT ![t] = freeMsgs[currentHead[t]]]
       /\ UNCHANGED <<head, freeMsgs, owners, currentHead>>
    \/ /\ currentHead[t] < 0
       /\ Go(t, "read", "idle")
       /\ UNCHANGED <<head, freeMsgs, owners, locals>>

AllocateCAS(t) ==
    \/ /\ head = currentHead[t]
       /\ Go(t, "pop", "idle")
       /\ head' = head - 1
       /\ owners' = [owners EXCEPT ![msg[t]] = @ + 1]
       /\ UNCHANGED <<freeMsgs, locals>>
    \/ /\ Go(t, "pop", "read")
       /\ LoadHead(t)
       /\ UNCHANGED <<head, freeMsgs, owners, msg>>

DeallocateLoad(t) ==
    /\ Go(t, "idle", "write")
    /\ \E b \in Buffers : /\ owners[b] > 0
                          /\ owners' = [owners EXCEPT ![b] = @ - 1]
                          /\ msg' = [msg EXCEPT ![t] = b]
    /\ LoadHead(t)
    /\ UNCHANGED <<head, freeMsgs>>

\* freeMsgs_[nextHead] = msg, or the exception "Pool overflow on deallocate"
DeallocateWrite(t) ==
    \/ /\ currentHead[t] + 1 < PoolMsgCount
       /\ Go(t, "write", "push")
       /\ freeMsgs' = [freeMsgs EXCEPT ![currentHead[t] + 1] = msg[t]]
       /\ UNCHANGED <<head, owners, locals>>
    \/ /\ currentHead[t] + 1 >= PoolMsgCount
       /\ Go(t, "write", "threw")
       /\ UNCHANGED <<head, freeMsgs, owners, locals>>

DeallocateCAS(t) ==
    \/ /\ head = currentHead[t]
       /\ Go(t, "push", "idle")
       /\ head' = head + 1
       /\ UNCHANGED <<freeMsgs, owners, locals>>
    \/ /\ Go(t, "push", "write")
       /\ LoadHead(t)
       /\ UNCHANGED <<head, freeMsgs, owners, msg>>

Next == \E t \in Threads :
            \/ AllocateLoad(t)   \/ AllocateRead(t)    \/ AllocateCAS(t)
            \/ DeallocateLoad(t) \/ DeallocateWrite(t) \/ DeallocateCAS(t)

Spec == Init /\ [][Next]_svars

\* Whatever ThreadSafe says, "CustomLockFreePool is thread-safe always": no two
\* callers have the same buffer.
ThreadSafeAlways == \A b \in Buffers : owners[b] <= 1

=============================================================================
