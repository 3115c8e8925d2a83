------------------------------ MODULE MCEngine ------------------------------
(* Symmetry for the runs of Engine.tla that check safety only; the values  *)
(* of the constants are in the .cfg files.                                 *)
EXTENDS Engine, TLC

Perms == Permutations(Thread) \union Permutations(Inner)

=============================================================================
