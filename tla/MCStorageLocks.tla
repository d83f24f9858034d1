--------------------------- MODULE MCStorageLocks ---------------------------
(* Instance of StorageLocks for TLC: threads, addresses and File:Tags are interchangeable. *)
EXTENDS StorageLocks, TLC

Symmetry == Permutations(Threads) \cup Permutations(LockIds) \cup Permutations(FileTags)
=============================================================================
