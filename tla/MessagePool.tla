----------------------------- MODULE MessagePool -----------------------------
(***************************************************************************)
(* What a pool of MemoryPool.hpp promises its callers: allocate() hands out *)
(* a buffer nobody has, deallocate() takes one back.  FeedState uses the    *)
(* pool in this form.                                                       *)
(***************************************************************************)
CONSTANT Buffers

VARIABLES free, out

PoolInit == free = Buffers /\ out = {}

Hand(b) == /\ b \in free
           /\ free' = free \ {b}
           /\ out' = out \union {b}

TakeBack(b) == /\ b \in out
               /\ out' = out \ {b}
               /\ free' = free \union {b}

PoolSpec == PoolInit /\ [][\E b \in Buffers : Hand(b) \/ TakeBack(b)]_<<free, out>>

=============================================================================
