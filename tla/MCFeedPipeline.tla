---------------------------- MODULE MCFeedPipeline ----------------------------
(***************************************************************************)
(* Instances of FeedPipeline for TLC.                                       *)
(***************************************************************************)
EXTENDS FeedPipeline, TLC

\* The pool gives out any free buffer and nothing else depends on which one.
SlotSymmetry == Permutations(Slots)

\* What the server does behind the end of the client is not explored.
ClientAlive == alive

AllFaults == FaultKinds

\* Every datagram at most once, or one of them (the second) also twice.
OneCopy    == [t \in Trades |-> 1]
DuplicateB == [t \in Trades |-> IF t = 1 THEN 2 ELSE 1]
=============================================================================
