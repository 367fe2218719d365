----------------------------- MODULE MCMoodyQueue -----------------------------
(***************************************************************************)
(* Three threads, blocks of two elements and a first index of two entries.  *)
(***************************************************************************)
EXTENDS MoodyQueue, TLC

CONSTANTS t1, t2, t3

Work(pool, enq, deq, ends) ==
    [pool  |-> pool, exits |-> ends,
     enq   |-> t1 :> enq[1] @@ t2 :> enq[2] @@ t3 :> enq[3],
     deq   |-> t1 :> deq[1] @@ t2 :> deq[2] @@ t3 :> deq[3]]

SmallWorkloads ==
    {\* One producer outgrows its index under two consumers.
     Work(1, <<5, 0, 0>>, <<0, 2, 1>>, 0),
     \* A thread holds a reference of a block that is taken, used and added again.
     Work(1, <<1, 4, 0>>, <<0, 0, 4>>, 0),
     \* A thread ends, and its producer is taken over with what is in it.
     Work(1, <<2, 2, 0>>, <<0, 0, 2>>, 1),
     \* Two blocks are added at once.
     Work(2, <<2, 2, 0>>, <<2, 2, 0>>, 0)}

=============================================================================
