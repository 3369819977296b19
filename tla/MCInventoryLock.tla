-------------------------- MODULE MCInventoryLock --------------------------
(* InventoryLock on small instances. *)
EXTENDS InventoryLock, TLC

Symmetry == Permutations(Locks) \union Permutations(Seats)
            \union Permutations(Keys) \union Permutations(Calls)
=============================================================================
