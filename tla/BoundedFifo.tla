----------------------------- MODULE BoundedFifo -----------------------------
(***************************************************************************)
(* What a queue of Queue.hpp promises (the concept MyQ): a sequence of      *)
(* pointers that grows at one end while it is not full and shrinks at the   *)
(* other; dequeue() returns the pointer it took from the sequence, whatever *)
(* happens before it returns.                                               *)
(***************************************************************************)
EXTENDS Naturals, Sequences

CONSTANTS
    Values, Bound,
    Takers,        \* the threads that call dequeue()
    None           \* no value

VARIABLES
    items,         \* what the queue holds
    held           \* what each taker has from dequeue() and is not done with

fifoVars == <<items, held>>

FifoInit == items = <<>> /\ held = [c \in Takers |-> None]

\* enqueue() that returns true.
Put == /\ Len(items) < Bound
       /\ \E v \in Values : items' = Append(items, v)
       /\ UNCHANGED held

\* dequeue() that returns a pointer: the oldest one.
Take(c) == /\ items # <<>>
           /\ held[c] = None
           /\ held' = [held EXCEPT ![c] = Head(items)]
           /\ items' = Tail(items)

\* The taker is done with the pointer.
Finish(c) == /\ held[c] # None
             /\ held' = [held EXCEPT ![c] = None]
             /\ UNCHANGED items

FifoNext == Put \/ \E c \in Takers : Take(c) \/ Finish(c)

FifoSpec == FifoInit /\ [][FifoNext]_fifoVars

=============================================================================
