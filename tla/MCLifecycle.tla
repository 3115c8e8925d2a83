---------------------------- MODULE MCLifecycle ----------------------------
(* Instances of Lifecycle.tla: engines on one thread, or one on each of    *)
(* two, and the symmetry of the safety runs.                               *)
EXTENDS Lifecycle, TLC

CONSTANTS t1, t2, e1, e2

OneThread == [e \in Inner |-> t1]
TwoThreads == [e \in Inner |-> IF e = e1 THEN t1 ELSE t2]

Perms ==
  Permutations(Linker) \union Permutations(Slot)
    \union Permutations(Module) \union Permutations(Instance)

(* With all of them on one thread the engines are alike as well.           *)
OneThreadPerms == Perms \union Permutations(Inner)

=============================================================================
