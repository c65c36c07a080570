------------------------------- MODULE MCLock -------------------------------
(* Lock.tla on small fleets: the lock, with its mutants.                   *)
EXTENDS Lock, TLC

\* Processes are interchangeable (used by the safety runs only).
Symmetry == Permutations(Proc)

=============================================================================
