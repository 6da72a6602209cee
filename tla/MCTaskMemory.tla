---------------------------- MODULE MCTaskMemory -----------------------------
(* A small instance of TaskMemory for TLC.                                 *)
EXTENDS TaskMemory, TLC

Symmetry == Permutations(Tasks)

==============================================================================
