------------------------------ MODULE MCWorker ------------------------------
(* Instance of Worker for TLC: what a WRITE may contain. *)
EXTENDS Worker

Formateado == [f \in FileTags |-> IF f = Base THEN [Storage!Empty EXCEPT !.data = <<EnCero>>] ELSE None]
Usado == [f \in FileTags |-> IF f = Base THEN [Storage!Empty EXCEPT !.data = <<EnCero>>, !.size = 1]
                              ELSE [Storage!Empty EXCEPT !.data = <<EnCero, EnCero>>, !.size = 2]]
DosStorages == {Formateado, Usado}

\* A byte, and three that need two pages; two, which an unaligned WRITE does not take whole.
UnByte == {<<1>>, <<1, 1, 1>>}
DosBytes == {<<1, 1>>}
=============================================================================
