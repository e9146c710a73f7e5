---------------------------- MODULE MCTeeClient ----------------------------
EXTENDS TeeClient, TLC

Symmetry == Permutations(Threads) \cup Permutations(Ctxs) \cup Permutations(Shms)

\* Bound: a death of cadaemon is checked in every state, but explored further only when
\* no memory of size 0 is about; what is promised after a death is not about memory.
DeathWithoutZeros ==
  \/ daemon.epoch = 0 /\ daemon.up
  \/ zeros = <<>> /\ ~crossed /\ \A m \in Shms : shm[m].addr # ZeroPtr
=============================================================================
