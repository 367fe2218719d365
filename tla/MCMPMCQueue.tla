----------------------------- MODULE MCMPMCQueue -----------------------------
(***************************************************************************)
(* Instances of MPMCQueue for TLC.                                          *)
(***************************************************************************)
EXTENDS MPMCQueue, TLC

\* Threads of a kind are alike, and so are buffers.
QSymmetry == Permutations(Producers) \union Permutations(Consumers)
                 \union Permutations(Slots)

=============================================================================
