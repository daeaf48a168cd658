------------------------- MODULE MCAccountDeletion -------------------------
(* Instances of AccountDeletion for TLC: see the .cfg files and README.md. *)
EXTENDS AccountDeletion, TLC

Symmetric == Permutations(Worker) \cup Permutations(Writer)
=============================================================================
