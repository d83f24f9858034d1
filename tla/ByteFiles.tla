------------------------------ MODULE ByteFiles ------------------------------
(***************************************************************************)
(* What the queries of one worker are promised (interpreter.h): File:Tags  *)
(* whose contents they see change at once, and a storage that gets the     *)
(* changes later.  No page tables, no frames, no replacement.              *)
(*                                                                         *)
(* What a query sees differs from what is stored only until it is synced,  *)
(* discarded because the File:Tag was committed, or lost with the worker.  *)
(***************************************************************************)
EXTENDS Integers, Sequences

CONSTANTS FileTags, Base, Data, Zero, NoFile, MaxLen,
          Others    \* other workers use the storage too

VARIABLES
    files,    \* the storage
    view,     \* File:Tag -> NoFile or the pages a query sees
    up        \* the worker is alive

Storage == INSTANCE FileStore

Stored(f) == IF files[f] = NoFile THEN NoFile ELSE files[f].data

Init ==
    /\ files \in [FileTags -> Storage!File \cup {NoFile}]
    /\ view = [f \in FileTags |-> Stored(f)]
    /\ up = TRUE

\* CREATE, TAG and DELETE act on the storage, whichever worker asks: a copy has what was stored.
Create(f) == Storage!Create(f) /\ view' = [view EXCEPT ![f] = <<>>]
Tag(f, g) == Storage!Tag(f, g) /\ view' = [view EXCEPT ![g] = files[f].data]
Delete(f) == Storage!Delete(f) /\ view' = [view EXCEPT ![f] = NoFile]

Truncate(f, n) ==
    /\ Storage!Truncate(f, n)
    /\ view' = [view EXCEPT ![f] = [i \in 1..n |-> IF i <= Len(@) THEN @[i] ELSE Zero]]

\* A page another worker writes, and the copy its TAG makes, are stored and seen at once.
WriteElsewhere(f, i, d) == Others /\ Storage!Write(f, i, d) /\ view' = [view EXCEPT ![f][i] = d]
CopyElsewhere(f, g)     == Others /\ Storage!Copy(f, g) /\ view' = [view EXCEPT ![f] = files[g].data]

\* A WRITE is seen page by page.
Write(f, i, d) ==
    /\ up /\ view[f] # NoFile
    /\ i \in DOMAIN view[f]
    /\ view' = [view EXCEPT ![f][i] = d]
    /\ UNCHANGED files

\* Pages that can still be written reach the storage as they are seen.
Sync ==
    /\ \A f \in FileTags :
          IF Storage!Writable(f)
          THEN /\ files'[f] = [files[f] EXCEPT !.data = files'[f].data]
               /\ \A i \in DOMAIN files[f].data : files'[f].data[i] \in {files[f].data[i], view[f][i]}
          ELSE files'[f] = files[f]
    /\ UNCHANGED view

\* COMMIT freezes what is seen.
Commit(f) ==
    /\ files[f] # NoFile
    /\ files' = [files EXCEPT ![f].committed = TRUE,
                              ![f].data = IF files[f].committed THEN @ ELSE view[f]]
    /\ UNCHANGED view

\* A page written after COMMIT is not accepted, and is seen until it leaves the memory.
Discard(f, i) ==
    /\ files[f] # NoFile /\ files[f].committed
    /\ i \in DOMAIN files[f].data
    /\ view' = [view EXCEPT ![f][i] = files[f].data[i]]
    /\ UNCHANGED files

\* The end of the worker takes what was not stored; it may come right after a TRUNCATE.
Crash ==
    /\ up' = FALSE
    /\ \/ UNCHANGED files
       \/ \E f \in FileTags, n \in 0..MaxLen : Storage!Truncate(f, n)
    /\ view' = [f \in FileTags |-> Stored(f)']

Restart == ~up /\ up' = TRUE /\ UNCHANGED <<files, view>>

Step ==
    \E f \in FileTags :
        \/ Create(f) \/ Delete(f) \/ Commit(f)
        \/ \E g \in FileTags : Tag(f, g) \/ CopyElsewhere(f, g)
        \/ \E n \in 0..MaxLen : Truncate(f, n)
        \/ \E i \in 1..MaxLen : Discard(f, i) \/ \E d \in Data : Write(f, i, d) \/ WriteElsewhere(f, i, d)

Next ==
    \/ (Step \/ Sync) /\ UNCHANGED up
    \/ up /\ Crash
    \/ Restart

vars == <<files, view, up>>
Spec == Init /\ [][Next]_vars
=============================================================================
