----------------------------- MODULE MCLockOrder -----------------------------
(* Symmetry for checking LockOrder with TLC.                               *)
EXTENDS LockOrder, TLC

Symmetry == Permutations(Clients)
=============================================================================
