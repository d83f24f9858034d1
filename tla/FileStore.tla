----------------------------- MODULE FileStore ------------------------------
(***************************************************************************)
(* What the storage promises to its workers (the operations of             *)
(* storage/include/storage_files.h), without blocks, links, hashes or a    *)
(* bitmap: a File:Tag is a sequence of block contents that can be extended *)
(* with zeros, cut, written block by block, frozen by COMMIT and deleted.  *)
(* Its size is what INFO_FILE_TAG tells a worker, in blocks: the base is   *)
(* born with a block and size 0.                                           *)
(* StorageFS implements it when a disk block is never shared by two        *)
(* File:Tags that can still be written.                                    *)
(***************************************************************************)
EXTENDS Integers, Sequences

CONSTANTS FileTags, Base, Data, Zero, NoFile, MaxLen

VARIABLE files     \* File:Tag -> NoFile or its contents, its size and whether it is committed

Contents == UNION {[1..n -> Data] : n \in 0..MaxLen}
File     == [data : Contents, size : 0..MaxLen, committed : BOOLEAN]

Empty == [data |-> <<>>, size |-> 0, committed |-> FALSE]

Init == files = [f \in FileTags |->
                    IF f = Base THEN [Empty EXCEPT !.data = <<Zero>>] ELSE NoFile]

Writable(f) == files[f] # NoFile /\ ~files[f].committed

Create(f) ==
    /\ files[f] = NoFile
    /\ files' = [files EXCEPT ![f] = Empty]

Truncate(f, n) ==
    /\ Writable(f)
    /\ files' = [files EXCEPT ![f].size = n, ![f].data =
                    [i \in 1..n |-> IF i <= Len(@) THEN @[i] ELSE Zero]]

Write(f, i, d) ==
    /\ Writable(f)
    /\ i \in DOMAIN files[f].data
    /\ files' = [files EXCEPT ![f].data[i] = d]

Commit(f) ==
    /\ files[f] # NoFile
    /\ files' = [files EXCEPT ![f].committed = TRUE]

Delete(f) ==
    /\ f # Base
    /\ files[f] # NoFile
    /\ files' = [files EXCEPT ![f] = NoFile]

\* TAG creates the File:Tag and then fills it with what its source contains.
Copy(f, g) ==
    /\ files[f] # NoFile /\ files[f].data = <<>> /\ ~files[f].committed
    /\ files[g] # NoFile
    /\ files' = [files EXCEPT ![f].data = files[g].data, ![f].size = files[g].size]

\* Both steps of a TAG, for a worker that is alone.
Tag(f, g) ==
    /\ files[f] # NoFile /\ files[g] = NoFile
    /\ files' = [files EXCEPT ![g] = [files[f] EXCEPT !.committed = FALSE]]

Next ==
    \E f \in FileTags :
        \/ Create(f)
        \/ \E n \in 0..MaxLen : Truncate(f, n)
        \/ \E i \in 1..MaxLen, d \in Data : Write(f, i, d)
        \/ \E g \in FileTags : Copy(f, g)
        \/ Commit(f)
        \/ Delete(f)

Spec == Init /\ [][Next]_files
=============================================================================
