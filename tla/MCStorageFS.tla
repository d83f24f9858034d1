---------------------------- MODULE MCStorageFS -----------------------------
(* Instance of StorageFS for TLC: the File:Tags other than Base are interchangeable. *)
EXTENDS StorageFS, TLC

CONSTANTS f1, f2

Symmetry == Permutations({f1, f2})
=============================================================================
