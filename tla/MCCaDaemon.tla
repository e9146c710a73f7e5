----------------------------- MODULE MCCaDaemon -----------------------------
(* Instances of CaDaemonService for TLC: every CA has a pid of its own. *)
EXTENDS CaDaemonService, TLC

CONSTANTS a1, a2, p1, p2

OwnPid == [a \in CA |-> IF a = a1 THEN p1 ELSE p2]

Symmetry == Permutations(Thread) \cup Permutations(Ctx) \cup Permutations(Fd)
            \cup Permutations(Sess) \cup Permutations(Shm)

=============================================================================
