--------------------------- MODULE MCLockManager ---------------------------
(* Small instance of the lock manager, with symmetric transactions. *)
EXTENDS LockManager, TLC

Symmetry == Permutations(Txns) \cup Permutations(Resources)
=============================================================================
