------------------------------ MODULE MCMaster ------------------------------
(* Instance of Master for TLC: queries, workers and aging threads are interchangeable. *)
EXTENDS Master, TLC

Symmetry == Permutations(Queries) \cup Permutations(Workers) \cup Permutations(Agers)
=============================================================================
