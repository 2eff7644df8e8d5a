------------------------------- MODULE MCMutex -------------------------------
(* Instances of Mutex for TLC. *)
EXTENDS Mutex, TLC

CONSTANTS r1, r2

\* One process per remote.
OwnProcess    == [r \in Remote |-> r]

Symmetry == Permutations(Remote)
=============================================================================
