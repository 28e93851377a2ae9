------------------------------ MODULE MCWorker ------------------------------
(* Model checking of Worker. *)
EXTENDS Worker, TLC

Interchangeable == Permutations(Workers) \union Permutations(Runs)
=============================================================================
