--------------------------- MODULE MCLockFreePool ----------------------------
(***************************************************************************)
(* Instances of LockFreeThreadSafePool for TLC.                             *)
(***************************************************************************)
EXTENDS LockFreeThreadSafePool, TLC

ThreadSymmetry == Permutations(Threads)

=============================================================================
